---- MODULE Spec2Model ----
(***************************************************************************)
(* A model of dbt-icebreaker's routing and reliability core:                *)
(*   - TrafficController.decide, the six-gate router  (traffic.py)          *)
(*   - AutoRouter.decide, the heuristic router        (auto_router.py)      *)
(*   - StateManager, the crash ledger (WAL)           (state.py)            *)
(*   - SyncManager.sync_table, SyncOrchestrator       (sync_manager.py)     *)
(*   - IcebreakerAdapter.execute_model                (impl.py)             *)
(*   - the Transpiler's checks                        (transpiler.py)       *)
(* Python's None is modelled per type: the empty tuple for an absent list   *)
(* or string, 0 for an absent number, a named record for an absent object.  *)
(***************************************************************************)
EXTENDS Integers, Sequences, FiniteSets, TLC

VARIABLES
    rin,        \* the arguments and injected collaborators of one decide() call
    tdec,       \* what TrafficController.decide returned (NoDecision before)
    adec,       \* what AutoRouter.decide returned (NoDecision before)
    disk,       \* the content of <state_dir>/local_state.json (NoFile if absent)
    tc_state,   \* TrafficController._local_state (NotLoaded = None)
    sm_state,   \* StateManager._state (NotLoaded = None)
    clock,      \* what datetime.now() returns
    ret,        \* the last StateManager, adapter or Transpiler call: name, argument, result
    calls,      \* per model: mark_crash calls made since its record was last empty
    sync,       \* the sync_table call in progress, its result and the SyncLedger
    orch,       \* the sync_in_order call in progress: its arguments, order and results
    thr,        \* worker threads inside StateManager calls, and the document they began with
    par         \* concurrent sync_table calls on one SyncManager, and the engines' tables

vars == <<rin, tdec, adec, disk, tc_state, sm_state, clock, ret, calls, sync, orch, thr, par>>

routerVars == <<rin, tdec, adec>>
ledgerVars == <<disk, sm_state, clock, ret, calls>>

------------------------------------------------------------------------------
(* Bounds of the model *)

\* longest SQL text, in tokens
MaxSqlLen == 2
\* longest source list
MaxSources == 1
\* number of timestamped ledger operations in one behaviour
MaxClock == 4
\* largest row count an engine reports
MaxRows == 2
\* sync_table calls made one after the other on one SyncManager
MaxCalls == 2
\* longest table list given to sync_in_order
MaxTables == 3
\* longest dependency list of one table
MaxDeps == 2
\* rows of sync_history
MaxRecords == 3
\* crashes a ledger file already holds for a model when a process opens it
MaxPrior == 5

------------------------------------------------------------------------------
(* Small helpers *)

Min(S) == CHOOSE x \in S : \A y \in S : x <= y

\* dict.get(k, default) on a function whose domain is the set of present keys
Get(d, k, default) == IF k \in DOMAIN d THEN d[k] ELSE default

\* dict.pop(k, None) / del on such a function
Without(d, k) == [x \in DOMAIN d \ {k} |-> d[x]]

\* d[k] = v on such a function
With(d, k, v) == [x \in DOMAIN d \cup {k} |-> IF x = k THEN v ELSE d[x]]

\* the empty dict
EmptyDict == << >>

\* all sequences over S of length at most n
SeqUpTo(S, n) == UNION {[1..k -> S] : k \in 0..n}

\* seq[:n]
FirstN(seq, n) == IF Len(seq) <= n THEN seq ELSE SubSeq(seq, 1, n)

\* seq[-n:]
LastN(seq, n) ==
    IF Len(seq) <= n THEN seq ELSE SubSeq(seq, Len(seq) - n + 1, Len(seq))

------------------------------------------------------------------------------
(* SQL text.  A text is a sequence of tokens; a token is either a dotted    *)
(* name (its parts are the \w+ words between the dots) or a fragment that   *)
(* is named by what it is.                                                  *)

TokIceberg == [kind |-> "name", parts |-> <<"iceberg_catalog", "sales", "orders">>]
TokCrossDb == [kind |-> "name", parts |-> <<"other_db", "schema", "table_name">>]
TokS3Url   == [kind |-> "frag", text |-> "'s3://bucket/path/'"]
TokXmlCall == [kind |-> "frag", text |-> "PARSE_XML(payload)"]
TokGarbage == [kind |-> "frag", text |-> "SELECT FROM WHERE ((("]

Tokens == {TokIceberg, TokCrossDb, TokS3Url, TokXmlCall, TokGarbage}

SqlTexts == SeqUpTo(Tokens, MaxSqlLen)

\* str.lower() on the words of the model
Lower(w) ==
    CASE w = "ICEBERG_CATALOG" -> "iceberg_catalog"
      [] w = "CLOUD" -> "cloud"
      [] w = "LOCAL" -> "local"
      [] OTHER -> w

IsName(tok) == tok.kind = "name"

\* sqlglot.parse raises ParseError on the text
ParseFails(sql) == \E i \in 1..Len(sql) : sql[i] = TokGarbage

\* func.sql_name().upper() of the function call a token is; << >> if it is none
FuncName(tok) == IF tok = TokXmlCall THEN <<"PARSE_XML">> ELSE << >>

\* BLACKLIST of detect_blacklisted_functions, as the test `blacklisted in func_name`
InBlacklist(fname) == fname \in {"PARSE_XML", "XMLGET", "GET_DDL"}

IsBlacklistedCall(tok) == FuncName(tok) # << >> /\ InBlacklist(FuncName(tok)[1])

\* Transpiler.detect_blacklisted_functions: the names found; [] when the parse fails
detect_blacklisted_functions(sql) ==
    IF ParseFails(sql) THEN << >>
    ELSE LET found == SelectSeq(sql, IsBlacklistedCall)
         IN  [i \in 1..Len(found) |-> FuncName(found[i])[1]]

\* Transpiler.can_transpile: <<can_transpile, error_message>>
can_transpile(sql) ==
    IF ParseFails(sql) THEN <<FALSE, <<"Failed to parse SQL">>>> ELSE <<TRUE, << >>>>

------------------------------------------------------------------------------
(* Models, sources and the other inputs of decide()                         *)

ModelIds == {"model.a", "model.b"}

\* model["name"] of the model with that unique_id
NameOf(uid) == IF uid = "model.a" THEN "a" ELSE "b"

\* the values of config["icebreaker_route"]; "" is the absent key
Routes == {"", "cloud", "local", "CLOUD"}

Meta(fmt, ice, ext) == [format |-> fmt, iceberg |-> ice, external |-> ext]

SrcInternal == [name |-> "internal_db", database |-> "", meta |-> Meta("internal", FALSE, FALSE)]
SrcCrossDb  == [name |-> "crm", database |-> "prod_db", meta |-> Meta("", FALSE, FALSE)]

SourceSamples == {SrcInternal, SrcCrossDb}

SourceLists == SeqUpTo(SourceSamples, MaxSources)

\* TrafficConfig defaults
max_local_seconds == 600
max_spill_bytes == 1073741824
max_local_size_gb == 5

\* entries of cloud_stats.json["models"][name]
StatsSamples ==
    { EmptyDict,
      [avg_seconds |-> max_local_seconds, avg_spill_bytes |-> max_spill_bytes],
      [avg_seconds |-> max_local_seconds + 1],
      [avg_spill_bytes |-> max_spill_bytes + 1] }

------------------------------------------------------------------------------
(* RoutingDecision of traffic.py: venue, reason, details, gate              *)

NoDecision == [venue |-> "NONE"]
NoGate == 0
NoDetails == << >>

Decision(v, r, d, g) == [venue |-> v, reason |-> r, details |-> d, gate |-> g]

\* a gate 1 that honours only the cloud override
GateIntent_OnlyCloud(config) ==
    IF config.icebreaker_route = "cloud"
    THEN Decision("CLOUD", "USER_OVERRIDE", <<"icebreaker_route='cloud'">>, 1)
    ELSE NoDecision

\* _gate_intent
GateIntent(config) ==
    IF config.icebreaker_route = "cloud"
    THEN Decision("CLOUD", "USER_OVERRIDE", <<"icebreaker_route='cloud'">>, 1)
    ELSE IF config.icebreaker_route = "local"
    THEN Decision("LOCAL", "USER_OVERRIDE", <<"icebreaker_route='local'">>, 1)
    ELSE NoDecision

\* a gate that looks for the wrong format word
IsInternal_External(source) == source.meta.format = "external"

IsInternal(source) == source.meta.format = "internal"

\* _gate_gravity: the first source marked internal decides
GateGravity(model, sources) ==
    IF \E i \in 1..Len(sources) : IsInternal(sources[i])
    THEN LET i == Min({j \in 1..Len(sources) : IsInternal(sources[j])})
         IN  Decision("CLOUD", "INTERNAL_SOURCE", <<sources[i].name>>, 2)
    ELSE NoDecision

\* _gate_capability
GateCapability(sql, model) ==
    LET blacklisted == detect_blacklisted_functions(sql)
        ct == can_transpile(sql)
    IN  IF blacklisted # << >>
        THEN Decision("CLOUD", "UNTRANSPILABLE",
                      <<"Found: ", FirstN(blacklisted, 3)>>, 3)
        ELSE IF ~ct[1]
        THEN Decision("CLOUD", "UNTRANSPILABLE", ct[2], 3)
        ELSE IF model.config.toxic_types # << >>
        THEN Decision("CLOUD", "TOXIC_TYPES", <<"Types: ", model.config.toxic_types>>, 3)
        ELSE NoDecision

------------------------------------------------------------------------------
(* The state document local_state.json                                      *)

NoFile == [exists |-> FALSE]
NotLoaded == [loaded |-> FALSE]

\* what 'unknown' stands for where a timestamp is expected
UnknownStamp == 0

\* TrafficController.local_state: the document read from disk, {} without a file
LoadLocalState(file) == IF file = NoFile THEN EmptyDict ELSE file

\* _gate_stability
GateStability(model, local_state) ==
    LET unique_id == model.unique_id
        crashes == Get(local_state, "crashes", EmptyDict)
        running == Get(local_state, "running", EmptyDict)
    IN  IF unique_id \in DOMAIN crashes
        THEN Decision("CLOUD", "CRASH_HISTORY",
                      <<"Last crash: ", Get(crashes[unique_id], "timestamp", UnknownStamp)>>, 4)
        ELSE IF unique_id \in DOMAIN running
        THEN Decision("CLOUD", "CRASH_HISTORY", <<"Previous run didn't complete">>, 4)
        ELSE NoDecision

\* a gate 5 that fires at the ceilings already
GateComplexity_AtLeast(model, cloud_stats) ==
    LET stats == Get(cloud_stats, model.name, EmptyDict)
        avg_seconds == Get(stats, "avg_seconds", 0)
        avg_spill == Get(stats, "avg_spill_bytes", 0)
    IN  IF stats = EmptyDict THEN NoDecision
        ELSE IF avg_seconds >= max_local_seconds
        THEN Decision("CLOUD", "HIGH_COMPLEXITY", <<"Avg runtime: ", avg_seconds>>, 5)
        ELSE IF avg_spill >= max_spill_bytes
        THEN Decision("CLOUD", "HIGH_COMPLEXITY", <<"Avg spill: ", avg_spill>>, 5)
        ELSE NoDecision

\* _gate_complexity
GateComplexity(model, cloud_stats) ==
    LET stats == Get(cloud_stats, model.name, EmptyDict)
        avg_seconds == Get(stats, "avg_seconds", 0)
        avg_spill == Get(stats, "avg_spill_bytes", 0)
    IN  IF stats = EmptyDict THEN NoDecision
        ELSE IF avg_seconds > max_local_seconds
        THEN Decision("CLOUD", "HIGH_COMPLEXITY", <<"Avg runtime: ", avg_seconds>>, 5)
        ELSE IF avg_spill > max_spill_bytes
        THEN Decision("CLOUD", "HIGH_COMPLEXITY", <<"Avg spill: ", avg_spill>>, 5)
        ELSE NoDecision

\* _smart_scan: None with no catalog, and None with one
SmartScan(model, sql) == 0

\* _gate_physics; estimated_size_gb 0 is the absent (or zero, equally falsy) estimate
GatePhysics(model, sql) ==
    LET estimated_gb == model.config.estimated_size_gb
        effective_size_gb == SmartScan(model, sql)
    IN  IF estimated_gb # 0 /\ estimated_gb > max_local_size_gb
        THEN Decision("CLOUD", "LARGE_VOLUME", <<"Estimated: ", estimated_gb>>, 6)
        ELSE IF effective_size_gb # 0 /\ effective_size_gb > max_local_size_gb
        THEN Decision("CLOUD", "LARGE_VOLUME", <<"Smart Scan: ", effective_size_gb>>, 6)
        ELSE NoDecision

\* a fall-through that sends the model to the cloud
DefaultLocal_Cloud == Decision("CLOUD", "DEFAULT_LOCAL", NoDetails, NoGate)

DefaultLocal == Decision("LOCAL", "DEFAULT_LOCAL", NoDetails, NoGate)

\* a chain that asks the Gravity gate after the Physics gate
DecideOn_GravityLast(r, local_state) ==
    LET d1 == GateIntent(r.model.config)
        d2 == GateGravity(r.model, r.sources)
        d3 == GateCapability(r.sql, r.model)
        d4 == GateStability(r.model, local_state)
        d5 == GateComplexity(r.model, r.cloud_stats)
        d6 == GatePhysics(r.model, r.sql)
    IN  IF d1 # NoDecision THEN d1
        ELSE IF d3 # NoDecision THEN d3
        ELSE IF d4 # NoDecision THEN d4
        ELSE IF d5 # NoDecision THEN d5
        ELSE IF d6 # NoDecision THEN d6
        ELSE IF d2 # NoDecision THEN d2
        ELSE DefaultLocal

\* TrafficController.decide on the local state it would read
DecideOn(r, local_state) ==
    LET d1 == GateIntent(r.model.config)
        d2 == GateGravity(r.model, r.sources)
        d3 == GateCapability(r.sql, r.model)
        d4 == GateStability(r.model, local_state)
        d5 == GateComplexity(r.model, r.cloud_stats)
        d6 == GatePhysics(r.model, r.sql)
    IN  IF d1 # NoDecision THEN d1
        ELSE IF d2 # NoDecision THEN d2
        ELSE IF d3 # NoDecision THEN d3
        ELSE IF d4 # NoDecision THEN d4
        ELSE IF d5 # NoDecision THEN d5
        ELSE IF d6 # NoDecision THEN d6
        ELSE DefaultLocal

\* decide() evaluates gate 4, and so reads local_state, only past gates 1 to 3
ReachesStability(r) ==
    /\ GateIntent(r.model.config) = NoDecision
    /\ GateGravity(r.model, r.sources) = NoDecision
    /\ GateCapability(r.sql, r.model) = NoDecision

\* the local_state property: the cached document, loaded on first use
LocalStateOf(cache, file) == IF cache = NotLoaded THEN LoadLocalState(file) ELSE cache

\* TrafficController.decide(model, sql, sources)
TrafficDecide ==
    /\ tdec' = DecideOn(rin, LocalStateOf(tc_state, disk))
    /\ tc_state' = IF ReachesStability(rin) THEN LocalStateOf(tc_state, disk) ELSE tc_state
    /\ UNCHANGED <<rin, adec, disk, sm_state, clock, ret, calls, sync, orch, thr, par>>

\* TrafficController(config).decide(model, sql, sources): a controller built for
\* this one call reads the file as it is now and is dropped afterwards
TrafficDecideNew ==
    /\ tc_state = NotLoaded
    /\ tdec' = DecideOn(rin, LoadLocalState(disk))
    /\ UNCHANGED <<rin, adec, disk, tc_state, sm_state, clock, ret, calls, sync, orch, thr, par>>

------------------------------------------------------------------------------
(* AutoRouter (auto_router.py).  Its RoutingDecision: venue, reason,        *)
(* details, confidence; confidence in hundredths.                           *)

ADecision(v, r, d, c) == [venue |-> v, reason |-> r, details |-> d, confidence |-> c]

\* AutoRouter defaults: max_local_gb in GB, cost_threshold_usd in cents
max_local_gb == 5
cost_threshold == 10

\* str.upper() of a model name
Upper(w) == CASE w = "a" -> "A" [] w = "b" -> "B" [] OTHER -> w

\* 'iceberg_catalog' in word.lower()
HasCatalogWord(w) == Lower(w) = "iceberg_catalog"

\* _iceberg_pattern \biceberg_catalog\.\w+\.\w+ (IGNORECASE) finds a match in the token
IcebergPatternIn(tok) ==
    /\ IsName(tok)
    /\ \E i \in 1..Len(tok.parts) : HasCatalogWord(tok.parts[i]) /\ i + 2 <= Len(tok.parts)

\* _is_iceberg_catalog_source
IsIcebergCatalogSource(sql) == \E i \in 1..Len(sql) : IcebergPatternIn(sql[i])

\* EXTERNAL_SOURCE_PATTERNS, in list order
PatStagePath == 1
PatFromStage == 2
PatThreePart == 3
PatS3 == 4
PatGs == 5
PatAzure == 6
PatAbfs == 7
PatHttp == 8
PatShare == 9
PatAccountUsage == 10
PatOrgUsage == 11
PatExternalTable == 12
PatCopyInto == 13
ExternalPatterns == PatStagePath..PatCopyInto

NoMatch == << >>

\* pattern.search on one token: match.group(0) as a tuple of words, NoMatch if none
PatternMatch(p, tok) ==
    IF IsName(tok)
    THEN CASE p = PatThreePart ->
                IF Len(tok.parts) >= 3 THEN SubSeq(tok.parts, 1, 3) ELSE NoMatch
           [] p = PatShare ->
                IF \E i \in 1..(Len(tok.parts) - 1) : Lower(tok.parts[i]) = "share"
                THEN <<"share">> ELSE NoMatch
           [] p = PatAccountUsage ->
                IF \E i \in 1..(Len(tok.parts) - 1) :
                      /\ Lower(tok.parts[i]) = "snowflake"
                      /\ Lower(tok.parts[i + 1]) = "account_usage"
                THEN <<"snowflake", "account_usage">> ELSE NoMatch
           [] p = PatOrgUsage ->
                IF \E i \in 1..(Len(tok.parts) - 1) :
                      /\ Lower(tok.parts[i]) = "snowflake"
                      /\ Lower(tok.parts[i + 1]) = "organization_usage"
                THEN <<"snowflake", "organization_usage">> ELSE NoMatch
           [] p = PatExternalTable ->
                IF \E i \in 1..Len(tok.parts) : Lower(tok.parts[i]) = "external_table"
                THEN <<"external_table">> ELSE NoMatch
           [] OTHER -> NoMatch
    ELSE IF tok = TokS3Url /\ p = PatS3 THEN <<"s3://bucket/">>
    ELSE NoMatch

\* pattern.search(sql): the leftmost match
SearchSql(p, sql) ==
    IF \E i \in 1..Len(sql) : PatternMatch(p, sql[i]) # NoMatch
    THEN PatternMatch(p, sql[Min({i \in 1..Len(sql) : PatternMatch(p, sql[i]) # NoMatch})])
    ELSE NoMatch

\* the patterns whose match is not skipped as an iceberg_catalog reference
ReportedPatterns(sql) ==
    {p \in ExternalPatterns :
        /\ SearchSql(p, sql) # NoMatch
        /\ ~\E k \in 1..Len(SearchSql(p, sql)) : HasCatalogWord(SearchSql(p, sql)[k])}

\* the checks of one source; << >> when it is passed over
SourceFinding(source) ==
    IF source.meta.iceberg THEN << >>
    ELSE IF source.meta.external THEN <<"Source is external", source.name>>
    ELSE IF source.database # "" /\ source.database # "memory"
            /\ source.database # "iceberg_catalog"
    THEN <<"Source is cross-database", source.name>>
    ELSE IF source.meta.format \in {"external", "stage", "s3", "gcs"}
    THEN <<"Source format is", source.name>>
    ELSE << >>

\* the loops of _detect_external_sources past the carve-out
ScanPatternsAndSources(sql, sources) ==
    IF ReportedPatterns(sql) # {}
    THEN <<"Pattern: ", SearchSql(Min(ReportedPatterns(sql)), sql)>>
    ELSE IF \E i \in 1..Len(sources) : SourceFinding(sources[i]) # << >>
    THEN SourceFinding(sources[Min({i \in 1..Len(sources) : SourceFinding(sources[i]) # << >>})])
    ELSE << >>

\* a check without the early return for catalog references
DetectExternalSources_NoCarveOut(sql, sources) == ScanPatternsAndSources(sql, sources)

\* _detect_external_sources; << >> is None
DetectExternalSources(sql, sources) ==
    IF IsIcebergCatalogSource(sql) THEN << >>
    ELSE ScanPatternsAndSources(sql, sources)

\* the entry of CLOUD_ONLY_FUNCTIONS (or syntax) found in a token; << >> if none
CloudFunctionIn(tok) == IF tok = TokXmlCall THEN <<"Function: ", "parse_xml">> ELSE << >>

\* _detect_cloud_functions
DetectCloudFunctions(sql) ==
    IF \E i \in 1..Len(sql) : CloudFunctionIn(sql[i]) # << >>
    THEN CloudFunctionIn(sql[Min({i \in 1..Len(sql) : CloudFunctionIn(sql[i]) # << >>})])
    ELSE << >>

\* _has_local_failures
HasLocalFailures(history, model_name) ==
    model_name \in DOMAIN history /\ Get(history[model_name], "local_failures", 0) > 0

IsCloudOnlyNode(history, node_id) ==
    /\ node_id \in DOMAIN history
    /\ Get(history[node_id], "venue", "") = "CLOUD"
    /\ Get(history[node_id], "reason", "") \in {"EXTERNAL_SOURCE", "CLOUD_FUNCTION"}

\* _check_cloud_dependencies
CheckCloudDependencies(history, model) ==
    LET nodes == model.depends_on
    IN  IF \E i \in 1..Len(nodes) : IsCloudOnlyNode(history, nodes[i])
        THEN <<"Depends on cloud-only: ",
               nodes[Min({i \in 1..Len(nodes) : IsCloudOnlyNode(history, nodes[i])})]>>
        ELSE << >>

NoCost == -1

\* the part of a query_stats key after its last dot: key.endswith("." + name)
KeyTail(key) == CASE key = "ANALYTICS.A" -> "A" [] key = "ANALYTICS.B" -> "B" [] OTHER -> ""

\* _check_historical_cost on a query_stats keyed by upper-case name; NoCost is None
CheckHistoricalCost(query_stats, model_name) ==
    IF query_stats = EmptyDict THEN NoCost
    ELSE IF Upper(model_name) \in DOMAIN query_stats
    THEN Get(query_stats[Upper(model_name)], "avg_cost_usd", 0)
    ELSE IF \E key \in DOMAIN query_stats : KeyTail(key) = Upper(model_name)
    THEN Get(query_stats[CHOOSE key \in DOMAIN query_stats : KeyTail(key) = Upper(model_name)],
             "avg_cost_usd", 0)
    ELSE NoCost

\* AutoRouter.decide(sql, model, sources)
AutoDecideOn(r) ==
    LET explicit_route == r.model.config.icebreaker_route
        external == DetectExternalSources(r.sql, r.sources)
        cloud_func == DetectCloudFunctions(r.sql)
        cloud_dep == CheckCloudDependencies(r.history, r.model)
        historical_cost == CheckHistoricalCost(r.query_stats, r.model.name)
    IN  IF explicit_route # "" /\ Lower(explicit_route) = "cloud"
        THEN ADecision("CLOUD", "USER_OVERRIDE", <<"icebreaker_route='cloud'">>, 100)
        ELSE IF explicit_route # "" /\ Lower(explicit_route) = "local"
        THEN ADecision("LOCAL", "USER_OVERRIDE_LOCAL", <<"icebreaker_route='local'">>, 100)
        ELSE IF HasLocalFailures(r.history, r.model.name)
        THEN ADecision("CLOUD", "PREVIOUS_FAILURE", <<"Local execution failed previously">>, 90)
        ELSE IF external # << >>
        THEN ADecision("CLOUD", "EXTERNAL_SOURCE", external, 100)
        ELSE IF cloud_func # << >>
        THEN ADecision("CLOUD", "CLOUD_FUNCTION", cloud_func, 100)
        ELSE IF cloud_dep # << >>
        THEN ADecision("CLOUD", "CLOUD_DEPENDENCY", cloud_dep, 80)
        ELSE IF r.catalog.present /\ r.catalog.volume_gb > max_local_gb
        THEN ADecision("CLOUD", "VOLUME_EXCEEDS_LIMIT", <<"GB over limit: ", r.catalog.volume_gb>>, 100)
        ELSE IF historical_cost # NoCost /\ historical_cost < cost_threshold
        THEN ADecision("LOCAL", "HISTORICAL_CHEAP", <<"Historical cost: ", historical_cost>>, 85)
        ELSE ADecision("LOCAL", "AUTO_LOCAL", <<"Passed all routing checks">>, 100)

AutoDecide ==
    /\ adec' = AutoDecideOn(rin)
    /\ UNCHANGED <<rin, tdec, disk, tc_state, sm_state, clock, ret, calls, sync, orch, thr, par>>

------------------------------------------------------------------------------
(* StateManager (state.py): the crash ledger.  A string is modelled by its  *)
(* length; timestamps are values of the clock.                              *)

\* StateConfig.max_crash_count
max_crash_count == 3

\* lengths: the [:200] cut, "Unknown", the two messages the ledger itself writes
ErrorCap == 200
UnknownLen == 7
StaleMsgLen == 35
ClearedMsgLen == 20
\* crash_entry["history"][-5:]
HistoryCap == 5

\* the error arguments of mark_crash: None (0) and a message longer than the cut
ErrorSamples == {0, 250}

\* _default_state
DefaultState ==
    [running |-> EmptyDict, crashes |-> EmptyDict, successes |-> EmptyDict,
     local_runs |-> 0, cloud_runs |-> 0]

\* _load_state
LoadState(file) == IF file = NoFile THEN DefaultState ELSE file

\* the state property: the cached document, loaded on first use
StateOf(cache, file) == IF cache = NotLoaded THEN LoadState(file) ELSE cache

\* an error stored as it comes, without the cut
StoredError_Uncut(error) == IF error = 0 THEN UnknownLen ELSE error

\* (error or "Unknown")[:200]
StoredError(error) ==
    LET e == IF error = 0 THEN UnknownLen ELSE error
    IN  IF e <= ErrorCap THEN e ELSE ErrorCap

\* the document after mark_running(model_id)
MarkRunningDoc(st, model_id, now) ==
    [st EXCEPT !.running = With(@, model_id, [started_at |-> now, invocation |-> "unknown"])]

\* a mark_success that forgives the model its crashes
MarkSuccessDoc_Forgives(st, model_id, now) ==
    [st EXCEPT !.running = Without(@, model_id),
               !.crashes = Without(@, model_id),
               !.successes = With(@, model_id, [last_success |-> now]),
               !.local_runs = @ + 1]

\* the document after mark_success(model_id)
MarkSuccessDoc(st, model_id, now) ==
    [st EXCEPT !.running = Without(@, model_id),
               !.successes = With(@, model_id, [last_success |-> now]),
               !.local_runs = @ + 1]

\* a mark_crash that leaves the running marker in place
MarkCrashDoc_KeepsRunning(st, model_id, error, now) ==
    LET crash_entry == Get(st.crashes, model_id, [count |-> 0, history |-> << >>])
        entry == [count |-> Get(crash_entry, "count", 0) + 1,
                  last_crash |-> now,
                  history |-> LastN(Append(crash_entry.history,
                                           [timestamp |-> now, error |-> StoredError(error)]),
                                    HistoryCap)]
    IN  [st EXCEPT !.crashes = With(@, model_id, entry)]

\* a mark_crash that forgets to count
MarkCrashDoc_NoCount(st, model_id, error, now) ==
    LET crash_entry == Get(st.crashes, model_id, [count |-> 0, history |-> << >>])
        entry == [count |-> Get(crash_entry, "count", 0),
                  last_crash |-> now,
                  history |-> LastN(Append(crash_entry.history,
                                           [timestamp |-> now, error |-> StoredError(error)]),
                                    HistoryCap)]
    IN  [st EXCEPT !.running = Without(@, model_id),
                   !.crashes = With(@, model_id, entry)]

\* the document after mark_crash(model_id, error)
MarkCrashDoc(st, model_id, error, now) ==
    LET crash_entry == Get(st.crashes, model_id, [count |-> 0, history |-> << >>])
        entry == [count |-> Get(crash_entry, "count", 0) + 1,
                  last_crash |-> now,
                  history |-> LastN(Append(crash_entry.history,
                                           [timestamp |-> now, error |-> StoredError(error)]),
                                    HistoryCap)]
    IN  [st EXCEPT !.running = Without(@, model_id),
                   !.crashes = With(@, model_id, entry)]

\* get_crash_count on a document
CrashCount(st, model_id) ==
    Get(Get(Get(st, "crashes", EmptyDict), model_id, EmptyDict), "count", 0)

\* a threshold that is off by one
Blacklisted_Above(st, model_id) == CrashCount(st, model_id) > max_crash_count

\* is_blacklisted on a document
Blacklisted(st, model_id) == CrashCount(st, model_id) >= max_crash_count

HasRunning(st, model_id) == model_id \in DOMAIN Get(st, "running", EmptyDict)

Call(op, id, value) == [op |-> op, id |-> id, value |-> value]

\* mark_running(model_id)
MarkRunning(model_id) ==
    /\ clock <= MaxClock
    /\ sm_state' = MarkRunningDoc(StateOf(sm_state, disk), model_id, clock)
    /\ disk' = sm_state'
    /\ clock' = clock + 1
    /\ ret' = Call("mark_running", model_id, "none")
    /\ UNCHANGED <<rin, tdec, adec, tc_state, calls, sync, orch, thr, par>>

\* mark_success(model_id)
MarkSuccess(model_id) ==
    /\ clock <= MaxClock
    /\ sm_state' = MarkSuccessDoc(StateOf(sm_state, disk), model_id, clock)
    /\ disk' = sm_state'
    /\ clock' = clock + 1
    /\ ret' = Call("mark_success", model_id, "none")
    /\ UNCHANGED <<rin, tdec, adec, tc_state, calls, sync, orch, thr, par>>

\* mark_crash(model_id, error)
MarkCrash(model_id, error) ==
    /\ clock <= MaxClock
    /\ sm_state' = MarkCrashDoc(StateOf(sm_state, disk), model_id, error, clock)
    /\ disk' = sm_state'
    /\ clock' = clock + 1
    /\ ret' = Call("mark_crash", model_id, "none")
    /\ calls' = [calls EXCEPT ![model_id] = @ + 1]
    /\ UNCHANGED <<rin, tdec, adec, tc_state, sync, orch, thr, par>>

\* was_crash(model_id): a leftover running marker is recorded as a crash
WasCrash(model_id) ==
    LET st == StateOf(sm_state, disk)
    IN  IF HasRunning(st, model_id)
        THEN /\ clock <= MaxClock
             /\ sm_state' = MarkCrashDoc(st, model_id, StaleMsgLen, clock)
             /\ disk' = sm_state'
             /\ clock' = clock + 1
             /\ ret' = Call("was_crash", model_id, TRUE)
             /\ calls' = [calls EXCEPT ![model_id] = @ + 1]
             /\ UNCHANGED <<rin, tdec, adec, tc_state, sync, orch, thr, par>>
        ELSE /\ sm_state' = st
             /\ ret' = Call("was_crash", model_id, CrashCount(st, model_id) > 0)
             /\ UNCHANGED <<rin, tdec, adec, tc_state, disk, clock, calls, sync, orch, thr, par>>

\* is_blacklisted(model_id)
IsBlacklisted(model_id) ==
    /\ sm_state' = StateOf(sm_state, disk)
    /\ ret' = Call("is_blacklisted", model_id, Blacklisted(StateOf(sm_state, disk), model_id))
    /\ UNCHANGED <<rin, tdec, adec, tc_state, disk, clock, calls, sync, orch, thr, par>>

\* clear_crash_history(model_id)
ClearCrashHistory(model_id) ==
    /\ sm_state' = [StateOf(sm_state, disk) EXCEPT !.crashes = Without(@, model_id)]
    /\ disk' = sm_state'
    /\ ret' = Call("clear_crash_history", model_id, "none")
    /\ calls' = [calls EXCEPT ![model_id] = 0]
    /\ UNCHANGED <<rin, tdec, adec, tc_state, clock, sync, orch, thr, par>>

\* StateManager(config) of the next process: nothing loaded yet
NewStateManager ==
    /\ sm_state # NotLoaded
    /\ sm_state' = NotLoaded
    /\ ret' = Call("new", "", "none")
    /\ UNCHANGED <<rin, tdec, adec, tc_state, disk, clock, calls, sync, orch, thr, par>>

------------------------------------------------------------------------------
(* Worker threads inside one StateManager (state.py has no lock).  The      *)
(* threads share the document in memory; a step is what one thread does     *)
(* between two points at which the interpreter can switch threads.          *)

Workers == {1, 2}

\* no thread is inside a StateManager call
NoThreads == [start |-> NoFile, w |-> << >>]

NoEntry == [count |-> 0, history |-> << >>]

\* a thread about to call op(model_id, error)
Worker(op, model_id, error) ==
    [pc |-> "begin", op |-> op, id |-> model_id, error |-> error,
     tmp |-> 0, alias |-> FALSE, entry |-> NoEntry]

\* the crash_entry a thread works on: the dict in the document when
\* crashes.get found one, else its own new dict
EntryOf(t) == IF thr.w[t].alias THEN sm_state.crashes[thr.w[t].id] ELSE thr.w[t].entry

\* the first statements of the call, up to the read of the counter:
\* mark_running sets the marker; mark_success pops it and sets the success;
\* mark_crash pops it and gets the crash entry
WorkerBegin(t) ==
    /\ thr.w[t].pc = "begin"
    /\ LET me == thr.w[t]
       IN  CASE me.op = "mark_running" ->
                  /\ sm_state' = MarkRunningDoc(sm_state, me.id, clock)
                  /\ thr' = [thr EXCEPT !.w[t].pc = "save"]
                  /\ clock' = clock + 1
             [] me.op = "mark_success" ->
                  /\ sm_state' = [sm_state EXCEPT
                         !.running = Without(@, me.id),
                         !.successes = With(@, me.id, [last_success |-> clock])]
                  /\ thr' = [thr EXCEPT !.w[t].pc = "read"]
                  /\ clock' = clock + 1
             [] me.op = "mark_crash" ->
                  /\ sm_state' = [sm_state EXCEPT !.running = Without(@, me.id)]
                  /\ thr' = [thr EXCEPT
                         !.w[t].pc = "read",
                         !.w[t].alias = me.id \in DOMAIN sm_state.crashes,
                         !.w[t].entry = Get(sm_state.crashes, me.id, NoEntry)]
                  /\ UNCHANGED clock
    /\ UNCHANGED <<rin, tdec, adec, disk, tc_state, ret, calls, sync, orch, par>>

\* the right-hand side of the increment is evaluated:
\* state.get("local_runs", 0) or crash_entry.get("count", 0)
WorkerReadCount(t) ==
    /\ thr.w[t].pc = "read"
    /\ thr' = [thr EXCEPT
            !.w[t].pc = "write",
            !.w[t].tmp = IF thr.w[t].op = "mark_success"
                         THEN Get(sm_state, "local_runs", 0)
                         ELSE Get(EntryOf(t), "count", 0)]
    /\ UNCHANGED <<rin, tdec, adec, disk, tc_state, sm_state, clock, ret, calls, sync, orch, par>>

\* the increment is stored; mark_crash also stamps the entry and appends to
\* its history, cut to the last five
WorkerWriteCount(t) ==
    /\ thr.w[t].pc = "write"
    /\ LET me == thr.w[t]
           entry == [count |-> me.tmp + 1,
                     last_crash |-> clock,
                     history |-> LastN(Append(EntryOf(t).history,
                                              [timestamp |-> clock,
                                               error |-> StoredError(me.error)]),
                                       HistoryCap)]
       IN  IF me.op = "mark_success"
           THEN /\ sm_state' = [sm_state EXCEPT !.local_runs = me.tmp + 1]
                /\ thr' = [thr EXCEPT !.w[t].pc = "save"]
                /\ UNCHANGED clock
           ELSE /\ sm_state' = IF me.alias
                               THEN [sm_state EXCEPT !.crashes[me.id] = entry]
                               ELSE sm_state
                /\ thr' = [thr EXCEPT !.w[t].pc = "store", !.w[t].entry = entry]
                /\ clock' = clock + 1
    /\ UNCHANGED <<rin, tdec, adec, disk, tc_state, ret, calls, sync, orch, par>>

\* mark_crash: crashes[model_id] = crash_entry
WorkerStoreEntry(t) ==
    /\ thr.w[t].pc = "store"
    /\ sm_state' = [sm_state EXCEPT !.crashes = With(@, thr.w[t].id, EntryOf(t))]
    /\ thr' = [thr EXCEPT !.w[t].pc = "save"]
    /\ UNCHANGED <<rin, tdec, adec, disk, tc_state, clock, ret, calls, sync, orch, par>>

\* _save_state: the document as it is now is written to the file
WorkerSave(t) ==
    /\ thr.w[t].pc = "save"
    /\ disk' = sm_state
    /\ thr' = [thr EXCEPT !.w[t].pc = "done"]
    /\ UNCHANGED <<rin, tdec, adec, tc_state, sm_state, clock, ret, calls, sync, orch, par>>

------------------------------------------------------------------------------
(* SyncManager.sync_table (sync_manager.py)                                 *)

\* SyncConfig.max_retries, retry_delay_seconds
max_retries == 3
retry_delay_seconds == 1

Engines == {"local", "cloud"}

NoResult == [table_id |-> "NONE"]

\* no SyncOrchestrator was built
NoOrchestrator == [pc |-> "none"]

\* SyncResult
SyncResult(ok, tid, src, tgt, sc, tc, ver, err, att) ==
    [success |-> ok, table_id |-> tid, source_engine |-> src, target_engine |-> tgt,
     source_row_count |-> sc, target_row_count |-> tc, verified |-> ver,
     error |-> err, attempt |-> att]

\* what _get_row_count can return: 0 without a connection, else the count the
\* engine reports (0 also when the query raises)
RowCounts(conns, engine) ==
    IF (engine = "local" /\ conns.local) \/ (engine # "local" /\ conns.cloud)
    THEN 0..MaxRows ELSE {0}

\* how _copy_table can end: it raises on a direction that is not local->cloud or
\* cloud->local, and without a cloud connection (no ATTACH, and the Parquet
\* path calls execute on None); with one the engine decides: with local_db
\* attached both directions are one statement on the cloud connection, also
\* when the SyncManager has no local connection
CopyOutcomes(conns, src, tgt) ==
    IF ~((src = "local" /\ tgt = "cloud") \/ (src = "cloud" /\ tgt = "local"))
    THEN {"Invalid sync direction"}
    ELSE IF ~conns.cloud THEN {"copy failed"}
    ELSE {"copied", "copy failed"}

\* a wait that does not grow
Backoff_Constant(attempt) == retry_delay_seconds

\* time.sleep(retry_delay_seconds * attempt) after a failed attempt
Backoff(attempt) == retry_delay_seconds * attempt

\* a ledger that keeps one row per table
Record_Overwrite(ledger, result) ==
    LET Other(row) == row.table_id # result.table_id
    IN  Append(SelectSeq(ledger, Other), result)

\* SyncLedger.record: INSERT of one row
Record(ledger, result) == Append(ledger, result)

\* a verification that compares nothing
Verified_Always(source_count, target_count) == TRUE

\* the verification of one attempt: verified, or the mismatch is raised
Verified(source_count, target_count) == source_count = target_count

\* one pass of the retry loop, given what the engines did:
\* the error raised in it, "" if it ran through
AttemptError(verify, copy, source_count, target_count) ==
    IF copy # "copied" THEN copy
    ELSE IF verify /\ ~Verified(source_count, target_count) THEN "Row count mismatch"
    ELSE ""

\* the SyncManager s once sync_table(schema, table) is entered for table_id:
\* with no attempt allowed the loop is skipped and the last return is taken
EnterSyncTable(s, table_id) ==
    LET entered == [s EXCEPT !.table_id = table_id, !.call = @ + 1, !.attempt = 0,
                             !.result = NoResult, !.sleeps = << >>, !.seen = << >>]
    IN  IF s.max_retries = 0
        THEN [entered EXCEPT
                !.pc = "returned",
                !.result = SyncResult(FALSE, table_id, s.source_engine,
                                      s.target_engine, 0, 0, FALSE, "Unknown error", 1)]
        ELSE [entered EXCEPT !.pc = "attempt", !.attempt = 1]

\* sync_table(schema, table, source_engine, target_engine) is called by a
\* caller of its own, the first time or again after it returned
SyncTableCall ==
    /\ orch = NoOrchestrator
    /\ sync.pc \in {"idle", "returned"}
    /\ sync.call < MaxCalls
    /\ sync' = EnterSyncTable(sync, sync.table_id)
    /\ UNCHANGED <<rin, tdec, adec, disk, tc_state, sm_state, clock, ret, calls, orch, thr, par>>

\* one attempt: count the source, copy, count the target, compare; then return
\* and record the result, or sleep and go round again
SyncAttempt ==
    /\ sync.pc = "attempt"
    /\ \E source_count \in RowCounts(sync.conns, sync.source_engine),
          copy \in CopyOutcomes(sync.conns, sync.source_engine, sync.target_engine),
          target_read \in RowCounts(sync.conns, sync.target_engine) :
         LET reads_target == copy = "copied" /\ sync.verify_row_counts
             target_count == IF reads_target THEN target_read ELSE source_count
             err == AttemptError(sync.verify_row_counts, copy, source_count, target_count)
             seen == [attempt |-> sync.attempt, source_count |-> source_count,
                      copied |-> copy = "copied", compared |-> reads_target,
                      target_count |-> target_count, error |-> err]
             ok == SyncResult(TRUE, sync.table_id, sync.source_engine, sync.target_engine,
                              source_count, target_count,
                              sync.verify_row_counts /\ Verified(source_count, target_count),
                              "", sync.attempt)
             failed == SyncResult(FALSE, sync.table_id, sync.source_engine,
                                  sync.target_engine, 0, 0, FALSE, err, sync.attempt)
         IN  /\ reads_target \/ target_read = 0
             /\ IF err = ""
                THEN sync' = [sync EXCEPT !.pc = "returned", !.result = ok,
                                          !.ledger = Record(@, ok),
                                          !.seen = Append(@, seen)]
                ELSE IF sync.attempt < sync.max_retries
                THEN sync' = [sync EXCEPT !.attempt = @ + 1,
                                          !.sleeps = Append(@, Backoff(sync.attempt)),
                                          !.seen = Append(@, seen)]
                ELSE sync' = [sync EXCEPT !.pc = "returned", !.result = failed,
                                          !.ledger = Record(@, failed),
                                          !.seen = Append(@, seen)]
    /\ UNCHANGED <<rin, tdec, adec, disk, tc_state, sm_state, clock, ret, calls, orch, thr, par>>

\* a SyncManager with its connections and configuration, and the arguments of
\* the call it is about to get
SyncSetups ==
    [pc : {"idle"}, call : {0}, attempt : {0},
     max_retries : 0..max_retries, verify_row_counts : BOOLEAN,
     conns : [local : BOOLEAN, cloud : BOOLEAN],
     table_id : {"analytics.orders"}, source_engine : Engines, target_engine : Engines,
     result : {NoResult}, ledger : {<< >>}, sleeps : {<< >>}, seen : {<< >>}]

SyncIdle == CHOOSE s \in SyncSetups :
    /\ s.max_retries = max_retries /\ s.verify_row_counts
    /\ s.conns.local /\ s.conns.cloud
    /\ s.source_engine = "local" /\ s.target_engine = "cloud"

------------------------------------------------------------------------------
(* SyncOrchestrator (sync_manager.py).  A table is named by its table id    *)
(* "<schema>.<table>"; a dependency graph is a dict in insertion order, a   *)
(* sequence of entries [tid, deps].                                         *)

TableIds == {"s.a", "s.b", "s.c"}

\* dependency_graph is None
NoGraph == [given |-> FALSE, entries |-> << >>]

Elems(seq) == {seq[i] : i \in 1..Len(seq)}

\* the keys of {f"{s}.{t}": (s, t) for s, t in tables}, in insertion order
RECURSIVE KeysInOrder(_)
KeysInOrder(tables) ==
    IF tables = << >> THEN << >>
    ELSE LET rest == KeysInOrder(FirstN(tables, Len(tables) - 1))
             last == tables[Len(tables)]
         IN  IF last \in Elems(rest) THEN rest ELSE Append(rest, last)

\* in_degree[tid] after the counting loop: one for every entry of its
\* dependency list that names a table of the call
InDegree(graph, ids, tid) ==
    LET own == {k \in 1..Len(graph) : graph[k].tid = tid}
    IN  IF own = {} THEN 0
        ELSE LET deps == graph[CHOOSE k \in own : TRUE].deps
             IN  Cardinality({j \in 1..Len(deps) : deps[j] \in ids})

\* the inner loop of Kahn's algorithm for the table just taken from the
\* queue, from entry k of the graph on; st is [deg, queue]
RECURSIVE Release(_, _, _, _)
Release(tid, graph, k, st) ==
    IF k > Len(graph) THEN st
    ELSE LET e == graph[k]
             hit == tid \in Elems(e.deps) /\ e.tid \in DOMAIN st.deg
             d == IF hit THEN st.deg[e.tid] - 1 ELSE 0
             next == IF hit
                     THEN [deg |-> [st.deg EXCEPT ![e.tid] = d],
                           queue |-> IF d = 0 THEN Append(st.queue, e.tid) ELSE st.queue]
                     ELSE st
         IN  Release(tid, graph, k + 1, next)

\* the while loop of Kahn's algorithm
RECURSIVE Drain(_, _, _)
Drain(st, result, graph) ==
    IF st.queue = << >> THEN result
    ELSE LET tid == Head(st.queue)
         IN  Drain(Release(tid, graph, 1, [st EXCEPT !.queue = Tail(@)]),
                   Append(result, tid), graph)

\* a sort that returns only what Kahn's algorithm released
TopologicalSort_DropsRest(tables, graph) ==
    LET order == KeysInOrder(tables)
        ids == Elems(order)
        deg == [tid \in ids |-> InDegree(graph, ids, tid)]
        Ready(tid) == deg[tid] = 0
    IN  Drain([deg |-> deg, queue |-> SelectSeq(order, Ready)], << >>, graph)

\* _topological_sort(tables, graph)
TopologicalSort(tables, graph) ==
    LET order == KeysInOrder(tables)
        ids == Elems(order)
        deg == [tid \in ids |-> InDegree(graph, ids, tid)]
        Ready(tid) == deg[tid] = 0
        sorted == Drain([deg |-> deg, queue |-> SelectSeq(order, Ready)], << >>, graph)
        Left(tid) == tid \notin Elems(sorted)
    IN  sorted \o SelectSeq(order, Left)

\* whether the loop of sync_in_order breaks after this result
StopsAfter_Never(result) == FALSE

StopsAfter(result) == ~result.success

\* sync_in_order(tables, dependency_graph) is entered: the order is fixed
SyncInOrderCall ==
    /\ orch.pc = "idle"
    /\ orch' = [orch EXCEPT
            !.pc = "loop",
            !.ordered = IF ~orch.graph.given THEN orch.tables
                        ELSE TopologicalSort(orch.tables, orch.graph.entries)]
    /\ UNCHANGED <<rin, tdec, adec, disk, tc_state, sm_state, clock, ret, calls, sync, thr, par>>

\* the head of the loop: sync_table is called for the next table, or the
\* list is exhausted and the results are returned
OrchSyncNext ==
    /\ orch.pc = "loop"
    /\ IF orch.i > Len(orch.ordered)
       THEN /\ orch' = [orch EXCEPT !.pc = "returned"]
            /\ UNCHANGED sync
       ELSE /\ sync' = EnterSyncTable(sync, orch.ordered[orch.i])
            /\ orch' = [orch EXCEPT !.pc = "syncing",
                                    !.called = Append(@, orch.ordered[orch.i])]
    /\ UNCHANGED <<rin, tdec, adec, disk, tc_state, sm_state, clock, ret, calls, thr, par>>

\* sync_table returned: its result is appended, and a failure ends the loop
OrchCollect ==
    /\ orch.pc = "syncing"
    /\ sync.pc = "returned"
    /\ orch' = [orch EXCEPT
            !.results = Append(@, sync.result),
            !.pc = IF StopsAfter(sync.result) THEN "returned" ELSE "loop",
            !.i = @ + 1]
    /\ UNCHANGED <<rin, tdec, adec, disk, tc_state, sm_state, clock, ret, calls, sync, thr, par>>

TableRank(tid) == CASE tid = "s.a" -> 1 [] tid = "s.b" -> 2 [] tid = "s.c" -> 3

\* dependency lists of a table: tables of lower rank, repeated or not
DepLists(tid) == SeqUpTo({u \in TableIds : TableRank(u) < TableRank(tid)}, MaxDeps)

\* acyclic graphs over the three tables, their keys in every order
Graphs ==
    { [given |-> TRUE,
       entries |-> [k \in 1..Cardinality(TableIds) |-> [tid |-> p[k], deps |-> d[p[k]]]]] :
        p \in {q \in [1..Cardinality(TableIds) -> TableIds] :
                  \A i, j \in DOMAIN q : q[i] = q[j] => i = j},
        d \in {f \in [TableIds -> UNION {DepLists(t) : t \in TableIds}] :
                  \A t \in TableIds : f[t] \in DepLists(t)} }

\* table lists without repetition
TableLists ==
    {l \in SeqUpTo(TableIds, MaxTables) : \A i, j \in 1..Len(l) : l[i] = l[j] => i = j}

OrchSetups ==
    [pc : {"idle"}, tables : TableLists, graph : {NoGraph} \cup Graphs,
     ordered : {<< >>}, i : {1}, results : {<< >>}, called : {<< >>}]

------------------------------------------------------------------------------
(* Concurrent sync_table calls on one SyncManager (sync_manager.py has no   *)
(* lock).  A step is one of the calls sync_table makes: _get_row_count of   *)
(* the source, _copy_table, _get_row_count of the target, ledger.record.    *)

Callers == {1, 2}

\* no concurrent call is under way
NoCallers == [rows |-> << >>, ledger |-> << >>, max_retries |-> 0, c |-> << >>]

\* a caller about to call sync_table for table_id
Caller(table_id) ==
    [pc |-> "idle", table_id |-> table_id, attempt |-> 0,
     source_count |-> 0, target_count |-> 0, error |-> "", result |-> NoResult]

\* the call is between its first step and its return
Inside(c) == par.c[c].pc \in {"count", "copy", "verify", "record"}

\* sync_table is entered: the first attempt begins, if one is allowed
ParEnter(c) ==
    /\ par.c[c].pc = "idle"
    /\ par' = IF par.max_retries = 0
              THEN [par EXCEPT !.c[c].pc = "returned",
                               !.c[c].result = SyncResult(FALSE, par.c[c].table_id, "local",
                                                          "cloud", 0, 0, FALSE,
                                                          "Unknown error", 1)]
              ELSE [par EXCEPT !.c[c].pc = "count", !.c[c].attempt = 1]
    /\ UNCHANGED <<rin, tdec, adec, disk, tc_state, sm_state, clock, ret, calls, sync, orch, thr>>

\* source_count = _get_row_count(source_engine, schema, table)
ParCount(c) ==
    /\ par.c[c].pc = "count"
    /\ par' = [par EXCEPT !.c[c].pc = "copy",
                          !.c[c].source_count = par.rows.local[par.c[c].table_id]]
    /\ UNCHANGED <<rin, tdec, adec, disk, tc_state, sm_state, clock, ret, calls, sync, orch, thr>>

\* the end of an attempt that raised: sleep and go round again, or give up
ParFail(c, error) ==
    IF par.c[c].attempt < par.max_retries
    THEN [par EXCEPT !.c[c].pc = "count", !.c[c].attempt = @ + 1]
    ELSE [par EXCEPT !.c[c].pc = "record", !.c[c].error = error]

\* _copy_table: the target table is replaced by what arrived of the source
\* table, all rows or one short, or the engine raises
ParCopy(c) ==
    /\ par.c[c].pc = "copy"
    /\ \/ \E arrived \in {par.rows.local[par.c[c].table_id],
                           par.rows.local[par.c[c].table_id] - 1} \cap (0..MaxRows) :
             par' = [par EXCEPT !.c[c].pc = "verify",
                                !.rows.cloud[par.c[c].table_id] = arrived]
       \/ par' = ParFail(c, "copy failed")
    /\ UNCHANGED <<rin, tdec, adec, disk, tc_state, sm_state, clock, ret, calls, sync, orch, thr>>

\* target_count = _get_row_count(target_engine, schema, table), compared with
\* the source count
ParVerify(c) ==
    /\ par.c[c].pc = "verify"
    /\ LET target_count == par.rows.cloud[par.c[c].table_id]
       IN  par' = IF Verified(par.c[c].source_count, target_count)
                  THEN [par EXCEPT !.c[c].pc = "record",
                                   !.c[c].target_count = target_count]
                  ELSE ParFail(c, "Row count mismatch")
    /\ UNCHANGED <<rin, tdec, adec, disk, tc_state, sm_state, clock, ret, calls, sync, orch, thr>>

\* ledger.record(result) and return
ParRecord(c) ==
    /\ par.c[c].pc = "record"
    /\ LET me == par.c[c]
           result == IF me.error = ""
                     THEN SyncResult(TRUE, me.table_id, "local", "cloud", me.source_count,
                                     me.target_count, TRUE, "", me.attempt)
                     ELSE SyncResult(FALSE, me.table_id, "local", "cloud", 0, 0, FALSE,
                                     me.error, me.attempt)
       IN  par' = [par EXCEPT !.c[c].pc = "returned", !.c[c].result = result,
                              !.ledger = Record(@, result)]
    /\ UNCHANGED <<rin, tdec, adec, disk, tc_state, sm_state, clock, ret, calls, sync, orch, thr>>

------------------------------------------------------------------------------
(* Initial states and specifications                                        *)

ModelNode(uid, route, toxic, est) ==
    [name |-> NameOf(uid), unique_id |-> uid,
     config |-> [icebreaker_route |-> route, toxic_types |-> toxic,
                 estimated_size_gb |-> est],
     depends_on |-> <<"model.up">>]

NoCatalog == [present |-> FALSE, volume_gb |-> 0]

Input(model, sql, sources, cloud_stats, history, catalog, query_stats) ==
    [model |-> model, sql |-> sql, sources |-> sources, cloud_stats |-> cloud_stats,
     history |-> history, catalog |-> catalog, query_stats |-> query_stats]

ToxicSamples == {<< >>, <<"GEOGRAPHY">>}
EstimateSamples == {0, max_local_size_gb, max_local_size_gb + 1}

CloudStatsSamples ==
    {IF st = EmptyDict THEN EmptyDict ELSE [n \in {"a"} |-> st] : st \in StatsSamples}

HistorySamples ==
    { EmptyDict,
      [n \in {"a"} |-> [local_failures |-> 1]],
      [n \in {"model.up"} |-> [venue |-> "CLOUD", reason |-> "EXTERNAL_SOURCE"]] }

CatalogSamples ==
    { NoCatalog,
      [present |-> TRUE, volume_gb |-> max_local_gb],
      [present |-> TRUE, volume_gb |-> max_local_gb + 1] }

QueryStatsSamples ==
    { EmptyDict,
      [k \in {"A"} |-> [avg_cost_usd |-> cost_threshold - 1]],
      [k \in {"ANALYTICS.A"} |-> [avg_cost_usd |-> cost_threshold]] }

\* inputs that vary what only the gate chain reads
TrafficInputs ==
    { Input(ModelNode("model.a", route, toxic, est), sql, sources, cs,
            EmptyDict, NoCatalog, EmptyDict) :
        route \in Routes, toxic \in ToxicSamples, est \in EstimateSamples,
        sql \in SqlTexts, sources \in SourceLists, cs \in CloudStatsSamples }

\* inputs that vary what only the heuristic router reads
AutoInputs ==
    { Input(ModelNode("model.a", route, << >>, 0), sql, sources, EmptyDict,
            history, catalog, qs) :
        route \in Routes, sql \in SqlTexts, sources \in SourceLists,
        history \in HistorySamples, catalog \in CatalogSamples, qs \in QueryStatsSamples }

\* a model no other gate than Stability can decide
PlainInput(uid) ==
    Input(ModelNode(uid, "", << >>, 0), << >>, << >>, EmptyDict, EmptyDict, NoCatalog, EmptyDict)

NoCalls == [m \in ModelIds |-> 0]

\* ledgers a StateManager leaves behind: no file, a crash of model.a, a crash of
\* model.b, a running marker of model.a
LedgerSamples ==
    { [disk |-> NoFile, clock |-> 1, calls |-> NoCalls],
      [disk |-> MarkCrashDoc(DefaultState, "model.a", 0, 1), clock |-> 2,
       calls |-> [NoCalls EXCEPT !["model.a"] = 1]],
      [disk |-> MarkCrashDoc(DefaultState, "model.b", 0, 1), clock |-> 2,
       calls |-> [NoCalls EXCEPT !["model.b"] = 1]],
      [disk |-> MarkRunningDoc(DefaultState, "model.a", 1), clock |-> 2,
       calls |-> NoCalls] }

NoCall == Call("none", "", "none")

\* the routers before a decide() call, for every input
InitRouter ==
    /\ \/ rin \in TrafficInputs /\ \E l \in LedgerSamples :
              disk = l.disk /\ clock = l.clock /\ calls = l.calls
       \/ rin \in AutoInputs /\ disk = NoFile /\ clock = 1 /\ calls = NoCalls
    /\ tdec = NoDecision /\ adec = NoDecision
    /\ tc_state = NotLoaded /\ sm_state = NotLoaded
    /\ ret = NoCall
    /\ sync = SyncIdle
    /\ orch = NoOrchestrator
    /\ thr = NoThreads
    /\ par = NoCallers

NextRouter == TrafficDecide \/ AutoDecide

SpecRouter == InitRouter /\ [][NextRouter]_vars

\* a new state directory
InitLedger ==
    /\ rin \in {PlainInput(uid) : uid \in ModelIds}
    /\ tdec = NoDecision /\ adec = NoDecision
    /\ disk = NoFile /\ tc_state = NotLoaded /\ sm_state = NotLoaded
    /\ clock = 1 /\ ret = NoCall /\ calls = NoCalls
    /\ sync = SyncIdle
    /\ orch = NoOrchestrator
    /\ thr = NoThreads
    /\ par = NoCallers

NextLedger ==
    \/ \E id \in ModelIds : MarkRunning(id)
    \/ \E id \in ModelIds : MarkSuccess(id)
    \/ \E id \in ModelIds, error \in ErrorSamples : MarkCrash(id, error)
    \/ \E id \in ModelIds : WasCrash(id)
    \/ \E id \in ModelIds : IsBlacklisted(id)
    \/ \E id \in ModelIds : ClearCrashHistory(id)
    \/ NewStateManager

SpecLedger == InitLedger /\ [][NextLedger]_vars

\* the gate chain, called with a new controller each time, beside the ledger
NextStability == NextLedger \/ TrafficDecideNew

SpecStability == InitLedger /\ [][NextStability]_vars

InitSync ==
    /\ rin = PlainInput("model.a")
    /\ tdec = NoDecision /\ adec = NoDecision
    /\ disk = NoFile /\ tc_state = NotLoaded /\ sm_state = NotLoaded
    /\ clock = 1 /\ ret = NoCall /\ calls = NoCalls
    /\ sync \in SyncSetups
    /\ orch = NoOrchestrator
    /\ thr = NoThreads
    /\ par = NoCallers

NextSync == SyncTableCall \/ SyncAttempt

SpecSync == InitSync /\ [][NextSync]_vars

\* two worker threads, each about to make one call on the StateManager they
\* share, whose document is loaded
InitThreads ==
    /\ rin = PlainInput("model.a")
    /\ tdec = NoDecision /\ adec = NoDecision
    /\ tc_state = NotLoaded
    /\ \E l \in LedgerSamples :
          /\ disk = l.disk /\ clock = l.clock /\ calls = l.calls
          /\ sm_state = LoadState(l.disk)
          /\ thr \in [start : {LoadState(l.disk)},
                      w : [Workers -> {Worker(op, id, 0) :
                                         op \in {"mark_running", "mark_success", "mark_crash"},
                                         id \in ModelIds}]]
    /\ ret = NoCall
    /\ sync = SyncIdle
    /\ orch = NoOrchestrator
    /\ par = NoCallers

NextThreads ==
    \E t \in Workers :
        \/ WorkerBegin(t)
        \/ WorkerReadCount(t)
        \/ WorkerWriteCount(t)
        \/ WorkerStoreEntry(t)
        \/ WorkerSave(t)

SpecThreads == InitThreads /\ [][NextThreads]_vars

\* two callers, each about to sync a table with the same SyncManager, which
\* verifies row counts; the local tables hold some rows, the cloud ones none
InitPar ==
    /\ rin = PlainInput("model.a")
    /\ tdec = NoDecision /\ adec = NoDecision
    /\ disk = NoFile /\ tc_state = NotLoaded /\ sm_state = NotLoaded
    /\ clock = 1 /\ ret = NoCall /\ calls = NoCalls
    /\ sync = SyncIdle
    /\ orch = NoOrchestrator
    /\ thr = NoThreads
    /\ par \in [rows : [local : [TableIds -> 0..MaxRows], cloud : {[t \in TableIds |-> 0]}],
                ledger : {<< >>},
                max_retries : 0..max_retries,
                c : [Callers -> {Caller(t) : t \in TableIds}]]

NextPar ==
    \E c \in Callers :
        \/ ParEnter(c)
        \/ ParCount(c)
        \/ ParCopy(c)
        \/ ParVerify(c)
        \/ ParRecord(c)

SpecPar == InitPar /\ [][NextPar]_vars

\* a SyncOrchestrator over a SyncManager that makes at most one attempt and
\* does not verify
InitOrch ==
    /\ rin = PlainInput("model.a")
    /\ tdec = NoDecision /\ adec = NoDecision
    /\ disk = NoFile /\ tc_state = NotLoaded /\ sm_state = NotLoaded
    /\ clock = 1 /\ ret = NoCall /\ calls = NoCalls
    /\ sync \in {s \in SyncSetups :
                    /\ s.max_retries <= 1 /\ ~s.verify_row_counts
                    /\ s.conns.local /\ s.conns.cloud
                    /\ s.source_engine = "local" /\ s.target_engine = "cloud"}
    /\ orch \in OrchSetups
    /\ thr = NoThreads
    /\ par = NoCallers

NextOrch == SyncInOrderCall \/ OrchSyncNext \/ SyncAttempt \/ OrchCollect

SpecOrch == InitOrch /\ [][NextOrch]_vars

Init == InitLedger
Next == NextStability
Spec == Init /\ [][Next]_vars

------------------------------------------------------------------------------
(* Properties of the routers, checked under SpecRouter                      *)

\* the document the controller reads at gate 4
LedgerView == LocalStateOf(tc_state, disk)

\* the decision of gate g alone
GateResult(g, r, local_state) ==
    CASE g = 1 -> GateIntent(r.model.config)
      [] g = 2 -> GateGravity(r.model, r.sources)
      [] g = 3 -> GateCapability(r.sql, r.model)
      [] g = 4 -> GateStability(r.model, local_state)
      [] g = 5 -> GateComplexity(r.model, r.cloud_stats)
      [] g = 6 -> GatePhysics(r.model, r.sql)

FiringGates(r, local_state) == {g \in 1..6 : GateResult(g, r, local_state) # NoDecision}

VenueOfRoute(route) == IF route = "cloud" THEN "CLOUD" ELSE "LOCAL"

\* C1 Override supremacy: with icebreaker_route "cloud" or "local" both routers
\* return exactly that venue with a user-override reason, whatever else the
\* input holds.
C1_OverrideSupremacy ==
    LET route == rin.model.config.icebreaker_route
    IN  route \in {"cloud", "local"} =>
          /\ tdec # NoDecision =>
                /\ tdec.venue = VenueOfRoute(route)
                /\ tdec.reason = "USER_OVERRIDE"
                /\ tdec.gate = 1
          /\ adec # NoDecision =>
                /\ adec.venue = VenueOfRoute(route)
                /\ adec.reason \in {"USER_OVERRIDE", "USER_OVERRIDE_LOCAL"}

\* forced LOCAL by both routers although gates 2, 3 and 6 would each send the
\* model to CLOUD and the SQL holds a cloud-only function
C1_Witness ==
    /\ rin.model.config.icebreaker_route = "local"
    /\ {2, 3, 6} \subseteq FiringGates(rin, LedgerView)
    /\ DetectCloudFunctions(rin.sql) # << >>
    /\ tdec # NoDecision /\ tdec.venue = "LOCAL"
    /\ adec # NoDecision /\ adec.venue = "LOCAL"

\* C2 Gate ordering: the decision is that of the lowest-numbered gate whose
\* condition holds, and carries that gate's number.
C2_GateOrdering ==
    tdec # NoDecision =>
        LET firing == FiringGates(rin, LedgerView)
        IN  IF firing = {} THEN tdec.gate = NoGate
            ELSE /\ tdec.gate = Min(firing)
                 /\ tdec = GateResult(Min(firing), rin, LedgerView)

\* gates 2 and 5 both hold and the gate-2 result is returned
C2_Witness ==
    /\ tdec # NoDecision
    /\ {2, 5} \subseteq FiringGates(rin, LedgerView)
    /\ tdec.gate = 2 /\ tdec.reason = "INTERNAL_SOURCE"

HasInternalSource(sources) == \E i \in 1..Len(sources) : sources[i].meta.format = "internal"

ThreePartRefs(sql) == {i \in 1..Len(sql) : IsName(sql[i]) /\ Len(sql[i].parts) = 3}

AllCatalogQualified(sql) ==
    /\ ThreePartRefs(sql) # {}
    /\ \A i \in 1..Len(sql) : IsName(sql[i]) /\ Len(sql[i].parts) >= 3 =>
          /\ Len(sql[i].parts) = 3
          /\ Lower(sql[i].parts[1]) = "iceberg_catalog"

\* nothing but the external-source check could send the model to CLOUD
NoOtherSignal(r) ==
    /\ r.model.config.icebreaker_route = ""
    /\ ~(("a" \in DOMAIN r.history) /\ Get(Get(r.history, "a", EmptyDict), "local_failures", 0) > 0)
    /\ \A i \in 1..Len(r.sql) : r.sql[i] # TokXmlCall
    /\ "model.up" \notin DOMAIN r.history
    /\ ~(r.catalog.present /\ r.catalog.volume_gb > max_local_gb)

\* C5 Catalog carve-out: SQL whose three-part references are all
\* iceberg_catalog.<schema>.<table> is never decided by the external-source
\* check, and with no other signal the decision is LOCAL.
C5_CatalogCarveOut ==
    (adec # NoDecision /\ AllCatalogQualified(rin.sql)) =>
        /\ adec.reason # "EXTERNAL_SOURCE"
        /\ NoOtherSignal(rin) => adec.venue = "LOCAL"

\* two catalog references joined in one query, beside a cross-database source
C5_Witness ==
    /\ adec # NoDecision
    /\ rin.sql = <<TokIceberg, TokIceberg>>
    /\ rin.sources = <<SrcCrossDb>>
    /\ NoOtherSignal(rin)
    /\ adec.venue = "LOCAL" /\ adec.reason = "AUTO_LOCAL"

------------------------------------------------------------------------------
(* Properties of the Stability gate beside the ledger, under SpecStability  *)

\* crashes[model_id]["last_crash"] of a document, UnknownStamp without a record
LastCrash(st, model_id) ==
    Get(Get(Get(st, "crashes", EmptyDict), model_id, EmptyDict), "last_crash", UnknownStamp)

\* decide() gets as far as gate 4 and the ledger on disk makes it fire
StabilityCase ==
    /\ ReachesStability(rin)
    /\ \/ CrashCount(LoadLocalState(disk), rin.model.unique_id) > 0
       \/ HasRunning(LoadLocalState(disk), rin.model.unique_id)

\* C6 Stability gate: a non-zero crash count or a leftover running marker gives
\* CLOUD, CRASH_HISTORY, gate 4, and the details carry the last crash timestamp.
C6_StabilityGate ==
    [][(TrafficDecideNew /\ StabilityCase) =>
          /\ tdec'.venue = "CLOUD"
          /\ tdec'.reason = "CRASH_HISTORY"
          /\ tdec'.gate = 4
          /\ tdec'.details[1] = "Last crash: "
          /\ tdec'.details[2] # UnknownStamp
          /\ CrashCount(LoadLocalState(disk), rin.model.unique_id) > 0 =>
                tdec'.details[2] = LastCrash(LoadLocalState(disk), rin.model.unique_id)]_vars

\* C7 Crash detection is durable in routing: when gate 4 finds a leftover
\* running marker, the persisted ledger afterwards has no such marker and one
\* more crash of the model.
C7_CrashDetectionDurable ==
    [][(/\ TrafficDecideNew
        /\ ReachesStability(rin)
        /\ HasRunning(LoadLocalState(disk), rin.model.unique_id)) =>
          /\ ~HasRunning(LoadLocalState(disk'), rin.model.unique_id)
          /\ CrashCount(LoadLocalState(disk'), rin.model.unique_id)
                = CrashCount(LoadLocalState(disk), rin.model.unique_id) + 1]_vars

------------------------------------------------------------------------------
(* Properties of the ledger, under SpecLedger                               *)

\* C8 WAL crash round-trip: mark_running(id) leaves a marker on disk; a new
\* instance that finds it answers was_crash(id) with true and persists one more
\* crash (the first one, if there was none) and no marker; mark_success(id)
\* removes the marker and changes no crash count.
C8_WalRoundTrip ==
    [][\A id \in ModelIds :
          /\ MarkRunning(id) => HasRunning(LoadState(disk'), id)
          /\ (WasCrash(id) /\ sm_state = NotLoaded /\ HasRunning(LoadState(disk), id)) =>
                /\ ret'.value = TRUE
                /\ CrashCount(LoadState(disk'), id) = CrashCount(LoadState(disk), id) + 1
                /\ ~HasRunning(LoadState(disk'), id)
          /\ MarkSuccess(id) =>
                /\ ~HasRunning(LoadState(disk'), id)
                /\ \A m \in ModelIds :
                      CrashCount(LoadState(disk'), m) = CrashCount(LoadState(disk), m)]_vars

\* mark_success of a model whose one crash is the stale marker was_crash found
C8_Witness ==
    \E id \in ModelIds :
        /\ ret.op = "mark_success" /\ ret.id = id
        /\ disk # NoFile
        /\ ~HasRunning(disk, id)
        /\ CrashCount(disk, id) = 1
        /\ calls[id] = 1
        /\ disk.crashes[id].history[1].error = StaleMsgLen
        /\ id \in DOMAIN disk.successes

\* C9 Blacklist threshold: is_blacklisted(id) is true exactly when at least
\* max_crash_count crashes of id itself were marked since its record was empty.
C9_BlacklistThreshold ==
    \A id \in ModelIds :
        /\ Blacklisted(StateOf(sm_state, disk), id) = (calls[id] >= max_crash_count)
        /\ (ret.op = "is_blacklisted" /\ ret.id = id) =>
              ret.value = (calls[id] >= max_crash_count)

\* true at the third crash of a model, while the other model has crashed too
C9_Witness ==
    \E id \in ModelIds, other \in ModelIds :
        /\ other # id
        /\ ret.op = "is_blacklisted" /\ ret.id = id /\ ret.value = TRUE
        /\ calls[id] = max_crash_count
        /\ calls[other] > 0

------------------------------------------------------------------------------
(* Properties of sync_table, under SpecSync                                 *)

\* an attempt in which the target count was read and equals the source count
Matched(a) == a.compared /\ a.source_count = a.target_count

\* an attempt in which the target count was read and differs
Mismatched(a) == a.compared /\ a.source_count # a.target_count

\* C10 Sync verification: with verification on, the result is success and
\* verified exactly when some attempt read a target count equal to the source
\* count; a mismatching attempt is followed by another unless it was the last
\* allowed; if every allowed attempt mismatches the result is a failure with a
\* row-count-mismatch error.
C10_SyncVerification ==
    sync.verify_row_counts =>
        /\ Len(sync.seen) <= sync.max_retries
        /\ sync.pc = "attempt" => \A i \in 1..Len(sync.seen) : ~Matched(sync.seen[i])
        /\ sync.pc = "returned" =>
              /\ (sync.result.success /\ sync.result.verified)
                    = (\E i \in 1..Len(sync.seen) : Matched(sync.seen[i]))
              /\ sync.result.success = sync.result.verified
              /\ \A i \in 1..Len(sync.seen) :
                    Mismatched(sync.seen[i]) => (i < Len(sync.seen) \/ i = sync.max_retries)
              /\ (sync.max_retries > 0 /\ Len(sync.seen) = sync.max_retries
                    /\ \A i \in 1..Len(sync.seen) : Mismatched(sync.seen[i])) =>
                    /\ ~sync.result.success
                    /\ sync.result.error = "Row count mismatch"

\* the first attempt reads N at the source and N-1 at the target, a later one
\* reads equal counts and the call returns verified
C10_Witness ==
    /\ sync.pc = "returned" /\ sync.verify_row_counts
    /\ Len(sync.seen) >= 2
    /\ Mismatched(sync.seen[1])
    /\ sync.seen[1].target_count = sync.seen[1].source_count - 1
    /\ sync.result.success /\ sync.result.verified
    /\ sync.result.attempt = Len(sync.seen)

------------------------------------------------------------------------------
(* Properties of sync_in_order, under SpecOrch                              *)

\* the tables the graph says tid depends on
DepsOf(graph, tid) ==
    UNION {Elems(graph[k].deps) : k \in {j \in 1..Len(graph) : graph[j].tid = tid}}

\* C11 Topological sync ordering: with a dependency graph, sync_table is called
\* for a table only after it was called, and succeeded, for every table of the
\* list it depends on.
C11_TopologicalOrdering ==
    (orch.pc # "none" /\ orch.graph.given) =>
        \A p \in 1..Len(orch.called) :
            \A a \in DepsOf(orch.graph.entries, orch.called[p]) \cap Elems(orch.tables) :
                \E q \in 1..(p - 1) :
                    /\ orch.called[q] = a
                    /\ orch.results[q].success

\* C12 sync_in_order stops at the first failed table: only the last result can
\* be a failure, the call has returned once there is one, and sync_table was
\* entered for exactly the tables up to it, in the fixed order.
C12_StopsAtFirstFailure ==
    orch.pc # "none" =>
        /\ \A q \in 1..Len(orch.results) :
              ~orch.results[q].success =>
                  /\ q = Len(orch.results)
                  /\ orch.pc = "returned"
                  /\ Len(orch.called) = q
        /\ Len(orch.called) \in {Len(orch.results), Len(orch.results) + 1}
        /\ orch.called = FirstN(orch.ordered, Len(orch.called))
        /\ \A q \in 1..Len(orch.results) : orch.results[q].table_id = orch.called[q]
        /\ sync.call = Len(orch.called)

\* three tables in dependency order, the second sync fails and the third
\* table is never synced
C12_Witness ==
    /\ orch.pc = "returned"
    /\ orch.graph.given
    /\ Len(orch.ordered) = 3
    /\ Len(orch.results) = 2
    /\ orch.results[1].success /\ ~orch.results[2].success
    /\ sync.call = 2

------------------------------------------------------------------------------
(* Properties of the SyncLedger beside sync_table, under SpecSync           *)

------------------------------------------------------------------------------
(* Properties of the retry loop of sync_table, under SpecSync               *)

------------------------------------------------------------------------------
(* Properties of concurrent StateManager calls, under SpecThreads           *)

\* the calls op(model_id) the threads make
CallsOf(op, model_id) ==
    Cardinality({t \in Workers : thr.w[t].op = op /\ thr.w[t].id = model_id})

AllDone == \A t \in Workers : thr.w[t].pc = "done"

\* C14 WAL mutual exclusion: when the concurrent calls have returned, no
\* update is lost: the file holds the document in memory, local_runs rose by
\* one per mark_success, and each model's crash count and history rose by one
\* per mark_crash.
C14_NoLostUpdate ==
    (thr # NoThreads /\ AllDone) =>
        /\ disk = sm_state
        /\ disk.local_runs = thr.start.local_runs
              + CallsOf("mark_success", "model.a") + CallsOf("mark_success", "model.b")
        /\ \A id \in ModelIds :
              /\ CrashCount(disk, id) = CrashCount(thr.start, id) + CallsOf("mark_crash", id)
              /\ CallsOf("mark_crash", id) > 0 =>
                    Len(disk.crashes[id].history)
                       = Len(Get(thr.start.crashes, id, NoEntry).history)
                            + CallsOf("mark_crash", id)

------------------------------------------------------------------------------
(* Properties of concurrent sync_table calls, under SpecPar                 *)

\* C15 Per-table sync serialization: two sync_table calls for the same table
\* id are never both between their first step and their return.
C15_SameTableSerialized ==
    par # NoCallers =>
        \A c1, c2 \in Callers :
            (c1 # c2 /\ par.c[c1].table_id = par.c[c2].table_id) =>
                ~(Inside(c1) /\ Inside(c2))

------------------------------------------------------------------------------
(* decide() on malformed documents: a null where the code expects a dict    *)

\* Python's None (JSON null) standing where a dict is expected
None == [none |-> TRUE]

\* an exception leaving decide(), with the gate whose code raised it
Raised(exc, g) == [venue |-> "RAISED", reason |-> exc, details |-> NoDetails, gate |-> g]

\* config.get(...) of _gate_intent on model["config"] = None
IntentRaises(config) == config = None

\* the sources the loop of _gate_gravity reads meta.get("format") of: those
\* before the first one whose meta is None
WellFormedPrefix(sources) ==
    IF \E i \in 1..Len(sources) : sources[i].meta = None
    THEN SubSeq(sources, 1, Min({i \in 1..Len(sources) : sources[i].meta = None}) - 1)
    ELSE sources

\* meta.get(...) of _gate_gravity on a source with meta = None, unless an
\* earlier source has returned the gate's decision
GravityRaises(model, sources) ==
    /\ WellFormedPrefix(sources) # sources
    /\ GateGravity(model, WellFormedPrefix(sources)) = NoDecision

\* _gate_stability on "crashes": null (unique_id in None) and on a null crash
\* entry (crash_info.get), and on "running": null
StabilityRaises(model, local_state) ==
    LET crashes == Get(local_state, "crashes", EmptyDict)
        running == Get(local_state, "running", EmptyDict)
    IN  IF crashes = None THEN TRUE
        ELSE IF model.unique_id \in DOMAIN crashes THEN crashes[model.unique_id] = None
        ELSE running = None

\* the exception _gate_stability raises: TypeError for `in None`,
\* AttributeError for None.get
StabilityError(model, local_state) ==
    LET crashes == Get(local_state, "crashes", EmptyDict)
    IN  IF crashes = None THEN "TypeError"
        ELSE IF model.unique_id \in DOMAIN crashes THEN "AttributeError"
        ELSE "TypeError"

\* self.cloud_stats.get("models", {}).get(model_name, {}) of _gate_complexity
\* on "models": null
ComplexityRaises(cloud_stats) == cloud_stats = None

\* decide() evaluates gate 4 on these inputs: no earlier gate returned or raised
StabilityEvaluated(r) ==
    /\ ~IntentRaises(r.model.config)
    /\ GateIntent(r.model.config) = NoDecision
    /\ ~GravityRaises(r.model, r.sources)
    /\ GateGravity(r.model, WellFormedPrefix(r.sources)) = NoDecision
    /\ GateCapability(r.sql, r.model) = NoDecision

\* the gate chain of decide() from gate 4 on
DecideFromStability(r, local_state) ==
    IF StabilityRaises(r.model, local_state)
    THEN Raised(StabilityError(r.model, local_state), 4)
    ELSE IF GateStability(r.model, local_state) # NoDecision
    THEN GateStability(r.model, local_state)
    ELSE IF ComplexityRaises(r.cloud_stats) THEN Raised("AttributeError", 5)
    ELSE IF GateComplexity(r.model, r.cloud_stats) # NoDecision
    THEN GateComplexity(r.model, r.cloud_stats)
    ELSE IF GatePhysics(r.model, r.sql) # NoDecision THEN GatePhysics(r.model, r.sql)
    ELSE DefaultLocal

\* TrafficController.decide with the exceptions its gates raise: no gate call
\* of decide() is inside a try
DecideOrRaise(r, local_state) ==
    IF IntentRaises(r.model.config) THEN Raised("AttributeError", 1)
    ELSE IF GateIntent(r.model.config) # NoDecision THEN GateIntent(r.model.config)
    ELSE IF GravityRaises(r.model, r.sources) THEN Raised("AttributeError", 2)
    ELSE IF GateGravity(r.model, WellFormedPrefix(r.sources)) # NoDecision
    THEN GateGravity(r.model, WellFormedPrefix(r.sources))
    ELSE IF GateCapability(r.sql, r.model) # NoDecision THEN GateCapability(r.sql, r.model)
    ELSE DecideFromStability(r, local_state)

\* TrafficController.decide(model, sql, sources) on documents that may hold nulls
TrafficDecideOrRaise ==
    /\ tdec = NoDecision
    /\ tdec' = DecideOrRaise(rin, LocalStateOf(tc_state, disk))
    /\ tc_state' = IF StabilityEvaluated(rin) THEN LocalStateOf(tc_state, disk) ELSE tc_state
    /\ UNCHANGED <<rin, adec, disk, sm_state, clock, ret, calls, sync, orch, thr, par>>

SrcNoMeta == [name |-> "raw", database |-> "", meta |-> None]

\* model nodes: well formed, or with "config": None
NodeSamples ==
    { ModelNode("model.a", route, << >>, 0) : route \in {"", "cloud"} }
       \cup { [ModelNode("model.a", "", << >>, 0) EXCEPT !.config = None] }

\* local_state.json: absent, well formed, or with a null in it
LocalStateSamples ==
    { NoFile,
      MarkRunningDoc(DefaultState, "model.a", 1),
      [crashes |-> None, running |-> EmptyDict],
      [crashes |-> [id \in {"model.a"} |-> None], running |-> EmptyDict],
      [crashes |-> EmptyDict, running |-> None] }

\* decide() inputs whose documents may hold nulls
NullInputs ==
    { Input(node, sql, sources, cs, EmptyDict, NoCatalog, EmptyDict) :
        node \in NodeSamples, sql \in {<< >>, <<TokXmlCall>>},
        sources \in SeqUpTo(SourceSamples \cup {SrcNoMeta}, MaxSources),
        cs \in CloudStatsSamples \cup {None} }

InitNulls ==
    /\ rin \in NullInputs
    /\ disk \in LocalStateSamples
    /\ clock = 1 /\ calls = NoCalls
    /\ tdec = NoDecision /\ adec = NoDecision
    /\ tc_state = NotLoaded /\ sm_state = NotLoaded
    /\ ret = NoCall
    /\ sync = SyncIdle
    /\ orch = NoOrchestrator
    /\ thr = NoThreads
    /\ par = NoCallers

NextNulls == TrafficDecideOrRaise

SpecNulls == InitNulls /\ [][NextNulls]_vars

\* C16 Gate failure isolation: decide() propagates no exception of a gate
\* evaluator; every decide() call returns a RoutingDecision, whose venue is
\* LOCAL or CLOUD.
C16_GateFailureIsolation ==
    tdec # NoDecision => tdec.venue \in {"LOCAL", "CLOUD"}

------------------------------------------------------------------------------
(* From routing to execution: IcebreakerAdapter.execute_model (impl.py)     *)

\* Transpiler.to_duckdb raises TranspilationError on the text: sqlglot.parse
\* raised ParseError; empty SQL is returned before any parse
ToDuckdbRaises(sql) == sql # << >> /\ ParseFails(sql)

\* IcebreakerAdapter.decide_venue(model, sql): an explicit route first, then a
\* TrafficController built for the call, asked without sources
DecideVenue(r, file) ==
    LET explicit_route == r.model.config.icebreaker_route
        route == Lower(explicit_route)
        decision == DecideOn([r EXCEPT !.sources = << >>], LoadLocalState(file))
    IN  IF explicit_route # "" /\ route \in {"cloud", "motherduck"} THEN "cloud"
        ELSE IF explicit_route # "" /\ route = "local" THEN "local"
        ELSE Lower(decision.venue)

\* decide_venue reaches controller.decide
AsksController(r) ==
    LET explicit_route == r.model.config.icebreaker_route
    IN  ~(explicit_route # "" /\ Lower(explicit_route) \in {"cloud", "motherduck", "local"})

\* how an execute_model call ends
Outcome(venue, status) == [venue |-> venue, status |-> status]

\* _execute_local: transpile, then run on DuckDB
ExecuteLocal(sql, engine_ok) ==
    IF ToDuckdbRaises(sql)
    THEN Outcome("local", "DbtRuntimeError: Failed to transpile SQL for local execution")
    ELSE IF engine_ok THEN Outcome("local", "OK (Local)")
    ELSE Outcome("local", "engine error")

\* _execute_cloud: the SQL goes to the warehouse as it is
ExecuteCloud(sql, engine_ok) ==
    IF engine_ok THEN Outcome("cloud", "OK (Cloud)") ELSE Outcome("cloud", "engine error")

\* IcebreakerAdapter.execute_model(model, manifest, sql); engine_ok is whether
\* the engine runs the SQL it is given
ExecuteModel ==
    /\ ret = NoCall
    /\ \E engine_ok \in BOOLEAN :
          ret' = Call("execute_model", rin.model.unique_id,
                      IF DecideVenue(rin, disk) = "local"
                      THEN ExecuteLocal(rin.sql, engine_ok)
                      ELSE ExecuteCloud(rin.sql, engine_ok))
    /\ tdec' = IF AsksController(rin)
               THEN DecideOn([rin EXCEPT !.sources = << >>], LoadLocalState(disk))
               ELSE tdec
    /\ UNCHANGED <<rin, adec, disk, tc_state, sm_state, clock, calls, sync, orch, thr, par>>

\* models and SQL handed to execute_model
ExecInputs ==
    { Input(ModelNode("model.a", route, << >>, 0), sql, << >>, cs,
            EmptyDict, NoCatalog, EmptyDict) :
        route \in Routes, sql \in SqlTexts, cs \in CloudStatsSamples }

InitExec ==
    /\ rin \in ExecInputs
    /\ \E l \in LedgerSamples : disk = l.disk /\ clock = l.clock /\ calls = l.calls
    /\ tdec = NoDecision /\ adec = NoDecision
    /\ tc_state = NotLoaded /\ sm_state = NotLoaded
    /\ ret = NoCall
    /\ sync = SyncIdle
    /\ orch = NoOrchestrator
    /\ thr = NoThreads
    /\ par = NoCallers

NextExec == ExecuteModel

SpecExec == InitExec /\ [][NextExec]_vars

\* C17 A TranspilationError is never fatal to the run: no execute_model call
\* ends with the model failing because its SQL could not be transpiled for
\* the local engine, and SQL that cannot be transpiled is sent to the cloud.
C17_TranspilationNeverFatal ==
    ret.op = "execute_model" =>
        /\ ret.value.status # "DbtRuntimeError: Failed to transpile SQL for local execution"
        /\ ToDuckdbRaises(rin.sql) => ret.value.venue = "cloud"

------------------------------------------------------------------------------
(* The Transpiler's checks on one SQL text (transpiler.py)                  *)

\* transpiler.detect_blacklisted_functions(sql)
DetectCall ==
    /\ ret' = Call("detect_blacklisted_functions", "", detect_blacklisted_functions(rin.sql))
    /\ UNCHANGED <<rin, tdec, adec, disk, tc_state, sm_state, clock, calls, sync, orch, thr, par>>

\* transpiler.can_transpile(sql)
CanTranspileCall ==
    /\ ret' = Call("can_transpile", "", can_transpile(rin.sql))
    /\ UNCHANGED <<rin, tdec, adec, disk, tc_state, sm_state, clock, calls, sync, orch, thr, par>>

\* the SQL texts handed to the Transpiler
TranspilerTexts == SeqUpTo(Tokens, MaxSqlLen + 1)

InitTranspiler ==
    /\ \E sql \in TranspilerTexts : rin = [sql |-> sql]
    /\ disk = NoFile /\ clock = 1 /\ calls = NoCalls
    /\ tdec = NoDecision /\ adec = NoDecision
    /\ tc_state = NotLoaded /\ sm_state = NotLoaded
    /\ ret = NoCall
    /\ sync = SyncIdle
    /\ orch = NoOrchestrator
    /\ thr = NoThreads
    /\ par = NoCallers

NextTranspiler == DetectCall \/ CanTranspileCall

SpecTranspiler == InitTranspiler /\ [][NextTranspiler]_vars

\* C19 Blacklist detection does not depend on a successful transpile:
\* detect_blacklisted_functions returns a non-empty list for every SQL text
\* that holds a call to a blacklisted function, also when the text cannot be
\* parsed as a whole.
C19_DetectsDespiteParseError ==
    (/\ ret.op = "detect_blacklisted_functions"
     /\ \E i \in 1..Len(rin.sql) : IsBlacklistedCall(rin.sql[i]))
        => ret.value # << >>

------------------------------------------------------------------------------
(* mark_crash on a ledger that already holds crashes                        *)

RECURSIVE CrashedDoc(_, _)
\* the document an earlier process left after n crashes of model_id, the last
\* of them one tick before this process starts
CrashedDoc(model_id, n) ==
    IF n = 0 THEN DefaultState
    ELSE MarkCrashDoc(CrashedDoc(model_id, n - 1), model_id, 250, 0 - (n - 1))

\* the ledger files a process may find
PriorLedgers ==
    {NoFile} \cup {CrashedDoc(id, n) : id \in ModelIds, n \in 1..MaxPrior}

InitCrash ==
    /\ rin = PlainInput("model.a")
    /\ tdec = NoDecision /\ adec = NoDecision
    /\ disk \in PriorLedgers
    /\ calls = [m \in ModelIds |-> CrashCount(LoadState(disk), m)]
    /\ tc_state = NotLoaded /\ sm_state = NotLoaded
    /\ clock = 1 /\ ret = NoCall
    /\ sync = SyncIdle
    /\ orch = NoOrchestrator
    /\ thr = NoThreads
    /\ par = NoCallers

NextCrash ==
    \/ \E id \in ModelIds : MarkRunning(id)
    \/ \E id \in ModelIds, error \in ErrorSamples : MarkCrash(id, error)

SpecCrash == InitCrash /\ [][NextCrash]_vars

\* the crash history of a model in a document
HistoryOf(st, model_id) == Get(st.crashes, model_id, NoEntry).history

\* C21 mark_crash keeps the crash record bounded: after mark_crash(id, error)
\* id has no running entry, its count is one more than before, its history is
\* the last (at most HistoryCap) of the earlier history followed by the new
\* crash, every stored error is at most ErrorCap long, and the records of the
\* other models are as before.
C21_MarkCrashBounded ==
    [][\A id \in ModelIds, error \in ErrorSamples :
          MarkCrash(id, error) =>
             LET before == StateOf(sm_state, disk)
                 all == Append(HistoryOf(before, id), [timestamp |-> clock, error |-> IF error = 0 THEN UnknownLen ELSE IF error > ErrorCap THEN ErrorCap ELSE error])
                 hist == HistoryOf(disk', id)
                 n == IF Len(all) < HistoryCap THEN Len(all) ELSE HistoryCap
             IN  /\ ~HasRunning(disk', id)
                 /\ CrashCount(disk', id) = CrashCount(before, id) + 1
                 /\ Len(hist) = n
                 /\ \A k \in 1..n : hist[k] = all[Len(all) - n + k]
                 /\ \A k \in 1..n : hist[k].error <= ErrorCap
                 /\ \A m \in ModelIds \ {id} :
                       /\ HasRunning(disk', m) = HasRunning(before, m)
                       /\ Get(disk'.crashes, m, NoEntry) = Get(before.crashes, m, NoEntry)
                 /\ disk'.successes = before.successes]_vars

\* the seventh crash of a model: five entries kept, the oldest two gone, the
\* long message cut, while the other model is marked running
C21_Witness ==
    \E id \in ModelIds, other \in ModelIds :
        /\ other # id
        /\ ret.op = "mark_crash" /\ ret.id = id
        /\ CrashCount(disk, id) = HistoryCap + 2
        /\ Len(disk.crashes[id].history) = HistoryCap
        /\ disk.crashes[id].history[HistoryCap].error = ErrorCap
        /\ disk.crashes[id].history[HistoryCap].timestamp = clock - 1
        /\ HasRunning(disk, other)

------------------------------------------------------------------------------
(* More properties of the ledger, under SpecLedger                          *)

------------------------------------------------------------------------------
(* _topological_sort on any graph: cycles, repeated and unlisted tables     *)

\* dependency lists over all tables, in rank order, repeated or not
AnyDepLists ==
    {d \in SeqUpTo(TableIds, MaxDeps) :
        \A i \in 1..(Len(d) - 1) : TableRank(d[i]) <= TableRank(d[i + 1])}

\* graphs over the three tables, cyclic or not, their keys in every order
AnyGraphs ==
    { [k \in 1..Cardinality(TableIds) |-> [tid |-> p[k], deps |-> d[p[k]]]] :
        p \in {q \in [1..Cardinality(TableIds) -> TableIds] :
                  \A i, j \in DOMAIN q : q[i] = q[j] => i = j},
        d \in [TableIds -> AnyDepLists] }

\* table lists, and table lists that name their first table again at the end
AnyTableLists ==
    TableLists \cup {Append(l, l[1]) : l \in TableLists \ {<< >>}}

\* orchestrator._topological_sort(tables, graph)
TopologicalSortCall ==
    /\ ret = NoCall
    /\ ret' = Call("_topological_sort", "", TopologicalSort(rin.tables, rin.graph))
    /\ UNCHANGED <<rin, tdec, adec, disk, tc_state, sm_state, clock, calls, sync, orch, thr, par>>

InitSort ==
    /\ \E tables \in AnyTableLists, graph \in AnyGraphs :
          rin = [tables |-> tables, graph |-> graph]
    /\ disk = NoFile /\ clock = 1 /\ calls = NoCalls
    /\ tdec = NoDecision /\ adec = NoDecision
    /\ tc_state = NotLoaded /\ sm_state = NotLoaded
    /\ ret = NoCall
    /\ sync = SyncIdle
    /\ orch = NoOrchestrator
    /\ thr = NoThreads
    /\ par = NoCallers

NextSort == TopologicalSortCall

SpecSort == InitSort /\ [][NextSort]_vars

\* C23 The order computed for sync_in_order contains every input table
\* exactly once: whatever the graph, the result holds each table of the list
\* and no other, none of them twice.
C23_EveryTableOnce ==
    ret.op = "_topological_sort" =>
        /\ Elems(ret.value) = Elems(rin.tables)
        /\ \A i, j \in 1..Len(ret.value) : ret.value[i] = ret.value[j] => i = j

\* s.a and s.b depend on each other: s.c is released, the two follow it
C23_Witness ==
    /\ ret.op = "_topological_sort"
    /\ rin.tables = <<"s.a", "s.b", "s.c">>
    /\ \E k1, k2 \in 1..Len(rin.graph) :
          /\ rin.graph[k1].tid = "s.a" /\ rin.graph[k1].deps = <<"s.b">>
          /\ rin.graph[k2].tid = "s.b" /\ rin.graph[k2].deps = <<"s.a">>
    /\ ret.value = <<"s.c", "s.a", "s.b">>

------------------------------------------------------------------------------
(* The Complexity gate on stats of this and of another model                *)

\* entries of cloud_stats.json["models"]: at, below and above either ceiling
ComplexityStats ==
    StatsSamples \cup
    { [avg_seconds |-> max_local_seconds + 1, avg_spill_bytes |-> 0],
      [avg_seconds |-> 0, avg_spill_bytes |-> max_spill_bytes + 1],
      [avg_seconds |-> max_local_seconds - 1, avg_spill_bytes |-> max_spill_bytes - 1] }

\* cloud_stats.json["models"]: empty, or stats under one model name
ComplexityCloudStats ==
    {EmptyDict} \cup {[n \in {name} |-> st] : name \in {"a", "b"}, st \in ComplexityStats}

ComplexityInputs ==
    { Input(ModelNode(uid, route, << >>, est), sql, sources, cs,
            EmptyDict, NoCatalog, EmptyDict) :
        uid \in ModelIds, route \in {"", "local"}, est \in EstimateSamples,
        sql \in {<< >>, <<TokXmlCall>>}, sources \in {<< >>, <<SrcInternal>>},
        cs \in ComplexityCloudStats }

InitComplexity ==
    /\ rin \in ComplexityInputs
    /\ \E l \in LedgerSamples : disk = l.disk /\ clock = l.clock /\ calls = l.calls
    /\ tdec = NoDecision /\ adec = NoDecision
    /\ tc_state = NotLoaded /\ sm_state = NotLoaded
    /\ ret = NoCall
    /\ sync = SyncIdle
    /\ orch = NoOrchestrator
    /\ thr = NoThreads
    /\ par = NoCallers

NextComplexity == TrafficDecide

SpecComplexity == InitComplexity /\ [][NextComplexity]_vars

\* C24 Complexity gate: for a model no gate from 1 to 4 decides, decide()
\* returns CLOUD, HIGH_COMPLEXITY, gate 5 exactly when there are stats under
\* the model's name with an average runtime above max_local_seconds or an
\* average spill above max_spill_bytes; without stats the result is that of
\* gate 6 or the default.
C24_ComplexityGate ==
    (tdec # NoDecision /\ FiringGates(rin, LedgerView) \cap (1..4) = {}) =>
        LET name == rin.model.name
            has == name \in DOMAIN rin.cloud_stats /\ rin.cloud_stats[name] # EmptyDict
            stats == IF has THEN rin.cloud_stats[name] ELSE EmptyDict
            over == \/ ("avg_seconds" \in DOMAIN stats /\ stats.avg_seconds > max_local_seconds)
                    \/ ("avg_spill_bytes" \in DOMAIN stats
                           /\ stats.avg_spill_bytes > max_spill_bytes)
        IN  /\ (tdec.venue = "CLOUD" /\ tdec.reason = "HIGH_COMPLEXITY" /\ tdec.gate = 5) <=> over
            /\ tdec.gate = 5 <=> over
            /\ ~has => tdec.gate \in {6, NoGate}

\* the runtime is at its ceiling, the spill above its own, and the estimate
\* would send the model to the cloud at gate 6
C24_Witness ==
    /\ tdec # NoDecision
    /\ tdec.gate = 5 /\ tdec.venue = "CLOUD" /\ tdec.reason = "HIGH_COMPLEXITY"
    /\ rin.model.name \in DOMAIN rin.cloud_stats
    /\ Get(rin.cloud_stats[rin.model.name], "avg_seconds", 0) <= max_local_seconds
    /\ rin.cloud_stats[rin.model.name].avg_spill_bytes = max_spill_bytes + 1
    /\ rin.model.config.estimated_size_gb > max_local_size_gb

------------------------------------------------------------------------------
(* SyncLedger with its timestamps: sync_history rows carry synced_at, the   *)
(* second in which they were inserted                                       *)

\* the row INSERT writes: the result's columns and DEFAULT CURRENT_TIMESTAMP
HistoryRow(result, now) == [result |-> result, synced_at |-> now]

\* the SyncResult get_last_sync builds from a row
ResultOfRow(row) ==
    [row.result EXCEPT !.attempt = IF @ = 0 THEN 1 ELSE @]

\* the rows ORDER BY synced_at DESC LIMIT 1 may return for table_id: any row
\* of the table with the greatest synced_at (SQL leaves ties open)
LastSyncRows(rows, table_id) ==
    {i \in 1..Len(rows) :
        /\ rows[i].result.table_id = table_id
        /\ \A j \in 1..Len(rows) :
              rows[j].result.table_id = table_id => rows[j].synced_at <= rows[i].synced_at}

\* the results callers hand to record
RecordedResults ==
    { SyncResult(ok, tid, "local", "cloud", 1, 1, ok, IF ok THEN "" ELSE "boom", att) :
        ok \in BOOLEAN, tid \in {"s.a", "s.b"}, att \in 1..2 }

\* ledger.record(result)
LedgerRecord(result) ==
    /\ Len(sync.ledger) < MaxRecords
    /\ sync' = [sync EXCEPT !.ledger = Append(@, HistoryRow(result, clock))]
    /\ ret' = Call("record", result.table_id, "none")
    /\ UNCHANGED <<rin, tdec, adec, disk, tc_state, sm_state, clock, calls, orch, thr, par>>

\* the next second begins
Tick ==
    /\ clock < MaxClock
    /\ clock' = clock + 1
    /\ UNCHANGED <<rin, tdec, adec, disk, tc_state, sm_state, ret, calls, sync, orch, thr, par>>

\* ledger.get_last_sync(table_id)
GetLastSync(table_id) ==
    /\ IF LastSyncRows(sync.ledger, table_id) = {}
       THEN ret' = Call("get_last_sync", table_id, NoResult)
       ELSE \E i \in LastSyncRows(sync.ledger, table_id) :
               ret' = Call("get_last_sync", table_id, ResultOfRow(sync.ledger[i]))
    /\ UNCHANGED <<rin, tdec, adec, disk, tc_state, sm_state, clock, calls, sync, orch, thr, par>>

InitHistory ==
    /\ rin = PlainInput("model.a")
    /\ tdec = NoDecision /\ adec = NoDecision
    /\ disk = NoFile /\ tc_state = NotLoaded /\ sm_state = NotLoaded
    /\ clock = 1 /\ ret = NoCall /\ calls = NoCalls
    /\ sync = SyncIdle
    /\ orch = NoOrchestrator
    /\ thr = NoThreads
    /\ par = NoCallers

NextHistory ==
    \/ \E result \in RecordedResults : LedgerRecord(result)
    \/ Tick
    \/ \E table_id \in {"s.a", "s.b"} : GetLastSync(table_id)

SpecHistory == InitHistory /\ [][NextHistory]_vars

\* C25 The latest attempt is authoritative: get_last_sync(table_id) returns
\* the record appended last for the table, and none only when the table has
\* no record.
C25_LatestIsAuthoritative ==
    ret.op = "get_last_sync" =>
        LET own == {i \in 1..Len(sync.ledger) : sync.ledger[i].result.table_id = ret.id}
        IN  IF own = {} THEN ret.value = NoResult
            ELSE ret.value = sync.ledger[CHOOSE i \in own : \A j \in own : j <= i].result

------------------------------------------------------------------------------
(* The two writers of local_state.json: TrafficController and StateManager  *)

\* the document after TrafficController.mark_crash(model, error)
TrafficMarkCrashDoc(st, unique_id, error) ==
    LET crashes == With(Get(st, "crashes", EmptyDict), unique_id,
                        [timestamp |-> "unknown",
                         error |-> IF error <= ErrorCap THEN error ELSE ErrorCap])
        running == Without(Get(st, "running", EmptyDict), unique_id)
    IN  With(With(st, "crashes", crashes), "running", running)

\* TrafficController.mark_crash(model, error)
TrafficMarkCrash(unique_id, error) ==
    /\ tc_state' = TrafficMarkCrashDoc(LocalStateOf(tc_state, disk), unique_id, error)
    /\ disk' = tc_state'
    /\ ret' = Call("traffic.mark_crash", unique_id, "none")
    /\ UNCHANGED <<rin, tdec, adec, sm_state, clock, calls, sync, orch, thr, par>>

\* get_crash_count(model_id)
GetCrashCount(model_id) ==
    /\ sm_state' = StateOf(sm_state, disk)
    /\ ret' = Call("get_crash_count", model_id, CrashCount(StateOf(sm_state, disk), model_id))
    /\ UNCHANGED <<rin, tdec, adec, tc_state, disk, clock, calls, sync, orch, thr, par>>

\* one component records a crash, then the other reads the file: a
\* StateManager crash is the first call of the run, and each reader opens the
\* file after the writer has saved it
NextWriters ==
    \/ \E id \in ModelIds : sm_state = NotLoaded /\ TrafficMarkCrash(id, 250)
    \/ \E id \in ModelIds :
          /\ ret = NoCall /\ tdec = NoDecision /\ tc_state = NotLoaded
          /\ MarkCrash(id, 250)
    \/ \E id \in ModelIds : GetCrashCount(id)
    \/ \E id \in ModelIds : WasCrash(id)
    \/ tdec = NoDecision /\ TrafficDecide

InitWriters ==
    /\ rin \in {PlainInput(uid) : uid \in ModelIds}
    /\ \E l \in LedgerSamples : disk = l.disk /\ clock = l.clock /\ calls = l.calls
    /\ tdec = NoDecision /\ adec = NoDecision
    /\ tc_state = NotLoaded /\ sm_state = NotLoaded
    /\ ret = NoCall
    /\ sync = SyncIdle
    /\ orch = NoOrchestrator
    /\ thr = NoThreads
    /\ par = NoCallers

SpecWriters == InitWriters /\ [][NextWriters]_vars

\* the crash record of the model on disk was written by TrafficController
TrafficCrashOnDisk(model_id) ==
    /\ disk # NoFile
    /\ model_id \in DOMAIN Get(disk, "crashes", EmptyDict)
    /\ "timestamp" \in DOMAIN disk.crashes[model_id]

\* C26 The two writers of local_state.json agree on what a crash is: after
\* TrafficController.mark_crash of a model a StateManager reading the file
\* answers get_crash_count with at least 1 and was_crash with true, and after
\* StateManager.mark_crash of a model decide() returns CLOUD at gate 4.
C26_WritersAgree ==
    /\ (ret.op = "get_crash_count" /\ TrafficCrashOnDisk(ret.id)) => ret.value >= 1
    /\ (ret.op = "was_crash" /\ TrafficCrashOnDisk(ret.id)) => ret.value = TRUE
    /\ (tdec # NoDecision /\ calls[rin.model.unique_id] > 0) =>
          (tdec.venue = "CLOUD" /\ tdec.gate = 4)

------------------------------------------------------------------------------
(* More properties of sync_table, under SpecSync                            *)

\* C27 A verified result means the counts were really compared: sync_table
\* returns success with verified only if the SyncManager has the connections
\* to read both row counts, and the two counts of the result are equal.
C27_VerifiedMeansCompared ==
    (sync.pc = "returned" /\ sync.result.success /\ sync.result.verified) =>
        /\ sync.conns.local /\ sync.conns.cloud
        /\ sync.result.source_row_count = sync.result.target_row_count


------------------------------------------------------------------------------
(* More properties of the heuristic router, under SpecRouter                *)

\* the token alone is reported by a pattern of EXTERNAL_SOURCE_PATTERNS
ExternalReference(tok) == ReportedPatterns(<<tok>>) # {}

\* a source the metadata marks external, not being an Iceberg source
MarkedExternal(source) == source.meta.external /\ ~source.meta.iceberg

\* C28 The carve-out exempts only the catalog reference itself: with no
\* override and no prior local failure, SQL that holds an external reference,
\* or a source marked external, is decided CLOUD for EXTERNAL_SOURCE, also
\* when the same SQL references iceberg_catalog.<schema>.<table>.
C28_CarveOutOnlyTheReference ==
    (/\ adec # NoDecision
     /\ rin.model.config.icebreaker_route = ""
     /\ ~HasLocalFailures(rin.history, rin.model.name)
     /\ \/ \E i \in 1..Len(rin.sql) : ExternalReference(rin.sql[i])
        \/ \E i \in 1..Len(rin.sources) : MarkedExternal(rin.sources[i]))
    => (adec.venue = "CLOUD" /\ adec.reason = "EXTERNAL_SOURCE")


------------------------------------------------------------------------------
(* Several StateManager instances over one state directory (state.py).  In  *)
(* SpecInstances sm_state holds the _state of each instance, NotLoaded      *)
(* until the instance first reads the state property; the file is written   *)
(* whole by _save_state, from the _state of the instance that saves.        *)

Instances == {1, 2}

\* the document after op(model_id) on the document st
MutatedDoc(st, op, model_id, now) ==
    CASE op = "mark_running" -> MarkRunningDoc(st, model_id, now)
      [] op = "mark_success" -> MarkSuccessDoc(st, model_id, now)
      [] op = "mark_crash" -> MarkCrashDoc(st, model_id, 0, now)

\* instance i calls op(model_id): the state property loads the file only when
\* the instance has nothing cached, the mutation is made on the cached
\* document and _save_state writes that document
InstanceCall(i, op, model_id) ==
    /\ clock <= MaxClock
    /\ sm_state' = [sm_state EXCEPT
            ![i] = MutatedDoc(StateOf(sm_state[i], disk), op, model_id, clock)]
    /\ disk' = sm_state'[i]
    /\ clock' = clock + 1
    /\ ret' = Call(op, model_id, i)
    /\ UNCHANGED <<rin, tdec, adec, tc_state, calls, sync, orch, thr, par>>

\* instance i calls get_crash_count(model_id): the state property loads the
\* file when the instance has nothing cached
InstanceGetCrashCount(i, model_id) ==
    /\ sm_state' = [sm_state EXCEPT ![i] = StateOf(sm_state[i], disk)]
    /\ ret' = Call("get_crash_count", model_id, CrashCount(sm_state'[i], model_id))
    /\ UNCHANGED <<rin, tdec, adec, disk, tc_state, clock, calls, sync, orch, thr, par>>

\* two instances are constructed over a directory an earlier run left behind
InitInstances ==
    /\ rin = PlainInput("model.a")
    /\ tdec = NoDecision /\ adec = NoDecision
    /\ tc_state = NotLoaded
    /\ sm_state = [i \in Instances |-> NotLoaded]
    /\ \E l \in LedgerSamples : disk = l.disk /\ clock = l.clock /\ calls = l.calls
    /\ ret = NoCall
    /\ sync = SyncIdle
    /\ orch = NoOrchestrator
    /\ thr = NoThreads
    /\ par = NoCallers

NextInstances ==
    \/ \E i \in Instances, id \in ModelIds : InstanceCall(i, "mark_running", id)
    \/ \E i \in Instances, id \in ModelIds : InstanceCall(i, "mark_success", id)
    \/ \E i \in Instances, id \in ModelIds : InstanceCall(i, "mark_crash", id)
    \/ \E i \in Instances, id \in ModelIds : InstanceGetCrashCount(i, id)

SpecInstances == InitInstances /\ [][NextInstances]_vars

\* what a document holds about one model
ModelPart(st, model_id) ==
    [running |-> Get(st.running, model_id, None),
     crashes |-> Get(st.crashes, model_id, None),
     successes |-> Get(st.successes, model_id, None)]

\* C29 No lost update across ledger instances: a mutation of one model that
\* an instance persists leaves in the file what the file held about the
\* other model, whichever instance wrote it.
C29_NoLostUpdateAcrossInstances ==
    [][\A id \in ModelIds :
          id # ret'.id => ModelPart(LoadState(disk'), id) = ModelPart(LoadState(disk), id)]_vars


------------------------------------------------------------------------------
(* More properties of was_crash, under SpecLedger                           *)

\* C30 One stale marker is one crash: a was_crash(id) that finds a leftover
\* running marker removes it, raises the crash count of id by exactly one and
\* returns true; a was_crash(id) that finds no marker changes neither the
\* crash record of id nor the file, and returns true when id has crashed.
C30_OneStaleMarkerOneCrash ==
    [][\A id \in ModelIds :
          (ret'.op = "was_crash" /\ ret'.id = id) =>
              LET before == StateOf(sm_state, disk)
                  after == LoadState(disk')
              IN  IF HasRunning(before, id)
                  THEN /\ ~HasRunning(after, id)
                       /\ CrashCount(after, id) = CrashCount(before, id) + 1
                       /\ ret'.value = TRUE
                  ELSE /\ disk' = disk
                       /\ Get(after.crashes, id, None) = Get(before.crashes, id, None)
                       /\ ret'.value = (CrashCount(before, id) > 0)]_vars

\* was_crash has turned the stale marker of model.a into its second crash
C30_Witness ==
    /\ ret = Call("was_crash", "model.a", TRUE)
    /\ disk # NoFile
    /\ ~HasRunning(disk, "model.a")
    /\ CrashCount(disk, "model.a") = 2
    /\ disk.crashes["model.a"].history[2].error = StoredError(StaleMsgLen)

====
